---- MODULE Spec2Model ----
(***************************************************************************)
(* Model of the unified multi-scope OAuth2 session store of                *)
(* src/google_services/auth/google_auth.py (class GoogleUnifiedAuth).      *)
(*                                                                         *)
(* Python lists of scope strings are modelled as sets of scope numbers     *)
(* (the code itself converts them through set() before every comparison),  *)
(* Python None / an absent dictionary key is modelled by a sentinel of the *)
(* same shape (0 for a token or a timestamp, NoTokenData, NoError, ...).   *)
(* What the provider answers (exchange outcome, expiry, refresh outcome)   *)
(* is an input of the actions; the tokens it issues are fresh, and         *)
(* utcnow() is the number of the call being made.                          *)
(***************************************************************************)
EXTENDS Integers, Sequences, FiniteSets, TLC

\* ------------------------------------------------------------------ bounds
NumIds == 1
NumScopes == 3
NumTokens == 2
MaxHist == 2
MaxNew == 1
MaxCalls == 4
NumThreads == 2
NumInstances == 2
NumSessions == 2
MaxOps == 3

Ids == 1..NumIds
Scopes == 1..NumScopes
Threads == 1..NumThreads
Instances == 1..NumInstances
SessionIds == 1..NumSessions

\* ------------------------------------------------------- program constants
REDIRECT_URI == "https://oauth.kiyora.dev/auth/callback"
TOKEN_URI == "https://oauth2.googleapis.com/token"
CLIENT_ID == "client_id"
CLIENT_SECRET == "client_secret"

\* The exceptions a failing code exchange raises: type name and message.
ExchangeErrors ==
    { [error_type |-> "InvalidGrantError", error_message |-> "invalid_grant"],
      [error_type |-> "ConnectionError", error_message |-> "timeout"] }

\* ------------------------------------------------------------- data shapes
NoTokenData ==
    [token |-> 0, refresh_token |-> 0, client_id |-> "", client_secret |-> "",
     scopes |-> {}, last_updated |-> 0]

NoError == [error_time |-> 0, error_type |-> "", error_message |-> ""]

NoCreds ==
    [token |-> 0, refresh_token |-> 0, token_uri |-> "", client_id |-> "",
     client_secret |-> "", scopes |-> {}]

\* authenticate returns None for the URL next to credentials; get_auth_url
\* returns "" for a session it does not find.
NoneUrl == [kind |-> "None", state |-> 0, scopes |-> {},
            access_type |-> "", prompt |-> ""]
EmptyUrl == [kind |-> "empty", state |-> 0, scopes |-> {},
             access_type |-> "", prompt |-> ""]

EmptyStore == [i \in {} |-> 0]

NoFile == [exists |-> FALSE, data |-> EmptyStore]

VARIABLES
    sessions,   \* self.sessions: the in-memory dictionary of the instance
    file,       \* the sessions file on disk
    last,       \* the last call: its arguments and what it returned
    calls,      \* the number of calls made so far
    mems,       \* concurrent runs: self.sessions of every instance
    threads,    \* concurrent runs: where each thread is in its call
    torn        \* concurrent runs: the file is open for writing, or garbled

vars == <<sessions, file, last, calls, mems, threads, torn>>

\* What only the concurrent runs change.
concurrent == <<mems, threads, torn>>

\* ---------------------------------------------------------- session store
\* _save_sessions: the whole in-memory dictionary replaces the file.
SaveSessions(mem) == [exists |-> TRUE, data |-> mem]

\* The 'scope' key of a record: 0 when the record has none, the scope when
\* it is a string, NotAString when it holds something else (null, a list).
NotAString == -1

MigrateSession_m(s) == s

\* The legacy migration of one record: a singular string 'scope' becomes
\* the one-element list 'scopes' and the 'scope' key is popped.
MigrateSession(s) ==
    IF s.scope \in Scopes THEN [s EXCEPT !.scopes = {s.scope}, !.scope = 0]
                          ELSE s

\* _load_sessions: an absent file leaves self.sessions as it is.
LoadSessions(mem, fl) ==
    IF fl.exists
    THEN [i \in DOMAIN fl.data |-> MigrateSession(fl.data[i])]
    ELSE mem

NewSession_m(scopes, now) ==
    [created_at |-> now, status |-> "pending", redirect_uri |-> REDIRECT_URI,
     scopes |-> {}, scope |-> 0, token_data |-> NoTokenData,
     scopes_history |-> <<>>, last_error |-> NoError, last_authorized |-> 0]

\* The dictionary create_session stores.
NewSession(scopes, now) ==
    [created_at |-> now, status |-> "pending", redirect_uri |-> REDIRECT_URI,
     scopes |-> scopes, scope |-> 0, token_data |-> NoTokenData,
     scopes_history |-> <<>>, last_error |-> NoError, last_authorized |-> 0]

Put_m(mem, id, s) == [i \in {id} |-> s]

Put(mem, id, s) ==
    [i \in (DOMAIN mem) \cup {id} |-> IF i = id THEN s ELSE mem[i]]

\* create_session: returns the memory and the file it leaves.
create_session(mem, session_id, scopes, now) ==
    LET mem1 == Put(mem, session_id, NewSession(scopes, now))
    IN  [sessions |-> mem1, file |-> SaveSessions(mem1)]

\* get_session: reloads the file, then looks the id up.
get_session(mem, fl) == LoadSessions(mem, fl)

\* update_session(session_id, status, token_data): for a known id, sets
\* the status, and the token data when one is given, and saves; it does not
\* reload, and it touches nothing else of the record.
update_session(mem, fl, session_id, status, token_data) ==
    LET mem1 == [mem EXCEPT ![session_id] =
                   [@ EXCEPT !.status = status,
                             !.token_data = IF token_data # NoTokenData
                                            THEN token_data ELSE @]]
    IN  IF session_id \in DOMAIN mem
        THEN [sessions |-> mem1, file |-> SaveSessions(mem1)]
        ELSE [sessions |-> mem, file |-> fl]

\* "session and session.get('token_data')"
HasTokenData(mem, session_id) ==
    /\ session_id \in DOMAIN mem
    /\ mem[session_id].token_data # NoTokenData

\* ----------------------------------------------------- credential resolver
ScopesAuthorized_m(required_scopes, authorized_scopes) == TRUE

\* all(scope in authorized_scopes for scope in required_scopes)
ScopesAuthorized(required_scopes, authorized_scopes) ==
    required_scopes \subseteq authorized_scopes

ScopesToUse_m(required_scopes, authorized_scopes) == authorized_scopes

\* "if required_scopes:" is false for None and for an empty list alike; both
\* are the empty set here.
ScopesToUse(required_scopes, authorized_scopes) ==
    IF required_scopes # {} THEN required_scopes ELSE authorized_scopes

\* Credentials.from_authorized_user_info(...)
MakeCreds(token_data, scopes_to_use) ==
    [token |-> token_data.token, refresh_token |-> token_data.refresh_token,
     token_uri |-> TOKEN_URI, client_id |-> token_data.client_id,
     client_secret |-> token_data.client_secret, scopes |-> scopes_to_use]

\* "creds and creds.expired and creds.refresh_token"
NeedsRefresh(creds, expired) == expired /\ creds.refresh_token # 0

StoreRefreshed_m(s, token) ==
    [s EXCEPT !.token_data.token = token, !.status = "completed"]

\* What a successful refresh writes back: only token_data['token'].
StoreRefreshed(s, token) == [s EXCEPT !.token_data.token = token]

\* get_credentials.  expired: whether the library finds the access token
\* expired; refreshed: the access token the refresh returns, 0 when the
\* refresh raises.  It reads self.sessions without reloading the file.
get_credentials(mem, fl, session_id, required_scopes, expired, refreshed) ==
    IF ~HasTokenData(mem, session_id)
    THEN [sessions |-> mem, file |-> fl, creds |-> NoCreds, raised |-> FALSE]
    ELSE
      LET token_data == mem[session_id].token_data
          authorized_scopes == token_data.scopes
      IN  IF required_scopes # {}
             /\ ~ScopesAuthorized(required_scopes, authorized_scopes)
          THEN [sessions |-> mem, file |-> fl, creds |-> NoCreds,
                raised |-> FALSE]
          ELSE
            LET creds == MakeCreds(token_data,
                             ScopesToUse(required_scopes, authorized_scopes))
                mem1 == [mem EXCEPT
                           ![session_id] = StoreRefreshed(@, refreshed)]
            IN  IF NeedsRefresh(creds, expired)
                THEN IF refreshed = 0
                     THEN [sessions |-> mem, file |-> fl, creds |-> NoCreds,
                           raised |-> TRUE]
                     ELSE [sessions |-> mem1, file |-> SaveSessions(mem1),
                           creds |-> [creds EXCEPT !.token = refreshed],
                           raised |-> FALSE]
                ELSE [sessions |-> mem, file |-> fl, creds |-> creds,
                      raised |-> FALSE]

\* ------------------------------------------------ authorization controller
AuthUrl_m(session_id, scopes) ==
    [kind |-> "url", state |-> 0, scopes |-> scopes,
     access_type |-> "offline", prompt |-> "consent"]

\* flow.authorization_url(access_type='offline', state=session_id,
\*                        prompt='consent') for a flow built with scopes.
AuthUrl(session_id, scopes) ==
    [kind |-> "url", state |-> session_id, scopes |-> scopes,
     access_type |-> "offline", prompt |-> "consent"]

get_auth_url_m(mem, session_id, new_scopes) ==
    IF session_id \notin DOMAIN mem
    THEN EmptyUrl
    ELSE AuthUrl(session_id, new_scopes)

\* get_auth_url: new_scopes = {} stands for None or an empty list.
get_auth_url(mem, session_id, new_scopes) ==
    IF session_id \notin DOMAIN mem
    THEN EmptyUrl
    ELSE AuthUrl(session_id,
                 IF new_scopes # {} THEN new_scopes
                                    ELSE mem[session_id].scopes)

HaveAllRequested_m(requested_scopes, current_scopes) ==
    /\ requested_scopes \subseteq current_scopes
    /\ requested_scopes # current_scopes

\* requested_scopes.issubset(current_scopes)
HaveAllRequested(requested_scopes, current_scopes) ==
    requested_scopes \subseteq current_scopes

CombinedScopes_onlynew(current_scopes, requested_scopes) ==
    requested_scopes \ current_scopes

CombinedScopes_m(current_scopes, requested_scopes) == requested_scopes

\* list(current_scopes.union(requested_scopes))
CombinedScopes(current_scopes, requested_scopes) ==
    current_scopes \cup requested_scopes

AwaitAdditionalScopes_m(s, new_scopes) == [s EXCEPT !.scopes = new_scopes]

\* The session after "New scopes needed".
AwaitAdditionalScopes(s, new_scopes) ==
    [s EXCEPT !.scopes = new_scopes, !.status = "pending_additional_scopes"]

\* authenticate(session_id, scope); scope is already a list (a single
\* string is wrapped first).
authenticate(mem, fl, session_id, scope, now, expired, refreshed) ==
    LET mem0 == get_session(mem, fl)
        got  == get_credentials(mem0, fl, session_id, scope, expired,
                                refreshed)
        current_scopes == mem0[session_id].scopes
        new_scopes == CombinedScopes(current_scopes, scope)
        mem1 == [mem0 EXCEPT
                   ![session_id] = AwaitAdditionalScopes(@, new_scopes)]
        made == create_session(mem0, session_id, scope, now)
    IN  IF HasTokenData(mem0, session_id)
        THEN IF HaveAllRequested(scope, current_scopes)
                /\ (got.raised \/ got.creds # NoCreds)
             THEN [sessions |-> got.sessions, file |-> got.file,
                   creds |-> got.creds, url |-> NoneUrl,
                   raised |-> got.raised]
             ELSE [sessions |-> mem1, file |-> SaveSessions(mem1),
                   creds |-> NoCreds,
                   url |-> get_auth_url(mem1, session_id, new_scopes),
                   raised |-> FALSE]
        ELSE IF session_id \notin DOMAIN mem0
             THEN [sessions |-> made.sessions, file |-> made.file,
                   creds |-> NoCreds,
                   url |-> get_auth_url(made.sessions, session_id, {}),
                   raised |-> FALSE]
             ELSE [sessions |-> mem0, file |-> fl, creds |-> NoCreds,
                   url |-> get_auth_url(mem0, session_id, {}),
                   raised |-> FALSE]

\* --------------------------------------------------------- callback handler
\* The provider never issues a token it issued before: the next value.
Fresh(t) == (t % NumTokens) + 1

\* What the token endpoint can answer to a code for a session whose stored
\* token data is previous: fresh tokens (refresh_token 0 when the provider
\* issues none) or an exception.  A call for an unknown session never asks.
Exchanges(reads, previous) ==
    IF ~reads
    THEN { [ok |-> FALSE, token |-> 0, refresh_token |-> 0,
            error |-> NoError] }
    ELSE
    { [ok |-> TRUE, token |-> Fresh(previous.token), refresh_token |-> r,
       error |-> NoError] : r \in {0, Fresh(previous.refresh_token)} }
    \cup
    { [ok |-> FALSE, token |-> 0, refresh_token |-> 0,
       error |-> [error_time |-> 0, error_type |-> e.error_type,
                  error_message |-> e.error_message]] : e \in ExchangeErrors }

\* os.environ["OAUTHLIB_RELAX_TOKEN_SCOPE"] = "0"
OAUTHLIB_RELAX_TOKEN_SCOPE == "0"

\* The library's check of the token response: a response that names other
\* scopes than the flow requested raises a Warning, unless the variable is
\* set (to any non-empty string).
ScopeChanged(requested, granted) ==
    OAUTHLIB_RELAX_TOKEN_SCOPE = "" /\ granted # requested

\* flow.fetch_token(code=code): the answer x of the token endpoint, for a
\* token issued for the scopes granted, as the library hands it on.
FetchToken(x, requested, granted) ==
    IF x.ok /\ ScopeChanged(requested, granted)
    THEN [ok |-> FALSE, token |-> 0, refresh_token |-> 0,
          error |-> [error_time |-> 0, error_type |-> "Warning",
                     error_message |-> "Scope has changed"]]
    ELSE x

CallbackScopes_m(current_scopes, new_scopes) ==
    IF new_scopes # {} THEN new_scopes ELSE current_scopes

\* current_scopes = set(session scopes); if new_scopes: update(new_scopes)
CallbackScopes(current_scopes, new_scopes) ==
    IF new_scopes # {} THEN current_scopes \cup new_scopes ELSE current_scopes

RefreshTokenToStore_m(issued, previous_token_data) == issued

\* "Handle refresh token": the issued one, else the previous one.
RefreshTokenToStore(issued, previous_token_data) ==
    IF issued # 0 THEN issued
    ELSE IF previous_token_data # NoTokenData
            /\ previous_token_data.refresh_token # 0
         THEN previous_token_data.refresh_token
         ELSE 0

\* "Prepare token data"
NewTokenData(x, scopes, previous_token_data, now) ==
    [token |-> x.token, client_id |-> CLIENT_ID,
     client_secret |-> CLIENT_SECRET, scopes |-> scopes,
     refresh_token |-> RefreshTokenToStore(x.refresh_token,
                                           previous_token_data),
     last_updated |-> now]

\* flow.credentials after fetch_token: what the provider issued.
FlowCredentials(x, scopes) ==
    [token |-> x.token, refresh_token |-> x.refresh_token,
     token_uri |-> TOKEN_URI, client_id |-> CLIENT_ID,
     client_secret |-> CLIENT_SECRET, scopes |-> scopes]

RecordsHistory_m(previous_status, new_scopes) == new_scopes # {}

\* "if is_adding_scopes or new_scopes:"
RecordsHistory(previous_status, new_scopes) ==
    previous_status = "pending_additional_scopes" \/ new_scopes # {}

CompletedSession_reset(s, scopes, token_data, new_scopes, now) ==
    [s EXCEPT !.scopes = scopes,
              !.token_data = token_data,
              !.status = "completed",
              !.last_authorized = now,
              !.scopes_history =
                  IF RecordsHistory(s.status, new_scopes)
                  THEN <<[date |-> now, action |-> "added_scopes",
                          scopes |-> scopes]>>
                  ELSE @]

CompletedSession_pending(s, scopes, token_data, new_scopes, now) ==
    [s EXCEPT !.scopes = scopes,
              !.token_data = token_data,
              !.status = "pending",
              !.last_authorized = now,
              !.scopes_history =
                  IF RecordsHistory(s.status, new_scopes)
                  THEN Append(@, [date |-> now, action |-> "added_scopes",
                                  scopes |-> scopes])
                  ELSE @]

\* The session a successful exchange commits.
CompletedSession(s, scopes, token_data, new_scopes, now) ==
    [s EXCEPT !.scopes = scopes,
              !.token_data = token_data,
              !.status = "completed",
              !.last_authorized = now,
              !.scopes_history =
                  IF RecordsHistory(s.status, new_scopes)
                  THEN Append(@, [date |-> now, action |-> "added_scopes",
                                  scopes |-> scopes])
                  ELSE @]

FailedSession_stamped(s, error, now) ==
    [s EXCEPT !.status = "failed",
              !.last_error = [error EXCEPT !.error_time = now],
              !.last_authorized = now]

FailedSession_m(s, error, now) ==
    [s EXCEPT !.status = "failed",
              !.last_error = [error EXCEPT !.error_time = now],
              !.token_data = NoTokenData]

\* The session the except branch leaves.
FailedSession(s, error, now) ==
    [s EXCEPT !.status = "failed",
              !.last_error = [error EXCEPT !.error_time = now]]

UnknownSession_m(mem, fl) ==
    [sessions |-> mem, file |-> fl, creds |-> NoCreds, raised |-> TRUE,
     exchanged |-> FALSE]

\* "if not session: return None"
UnknownSession(mem, fl) ==
    [sessions |-> mem, file |-> fl, creds |-> NoCreds, raised |-> FALSE,
     exchanged |-> FALSE]

\* handle_oauth_callback(session_id, code, new_scopes); x is what the token
\* endpoint answers to the code.  exchanged: whether fetch_token was called.
handle_oauth_callback(mem, fl, session_id, new_scopes, x, now) ==
    LET mem0 == get_session(mem, fl)
        session == mem0[session_id]
        scopes == CallbackScopes(session.scopes, new_scopes)
        token_data == NewTokenData(x, scopes, session.token_data, now)
        mem1 == [mem0 EXCEPT ![session_id] =
                   CompletedSession(@, scopes, token_data, new_scopes, now)]
        mem2 == [mem0 EXCEPT ![session_id] = FailedSession(@, x.error, now)]
    IN  IF session_id \notin DOMAIN mem0
        THEN UnknownSession(mem0, fl)
        ELSE IF x.ok
             THEN [sessions |-> mem1, file |-> SaveSessions(mem1),
                   creds |-> FlowCredentials(x, scopes),
                   raised |-> FALSE, exchanged |-> TRUE]
             ELSE [sessions |-> mem2, file |-> SaveSessions(mem2),
                   creds |-> NoCreds, raised |-> TRUE, exchanged |-> TRUE]

\* has_scope(session_id, scope): reloads, then looks the scope up in the
\* session's 'scopes' when the session has token data.
has_scope(mem, fl, session_id, scope) ==
    LET mem0 == get_session(mem, fl)
    IN  [sessions |-> mem0, file |-> fl,
         has_scope |-> /\ HasTokenData(mem0, session_id)
                       /\ scope \in mem0[session_id].scopes]

\* ------------------------------------------------------ callback endpoints
\* Scope strings are made of characters, which are numbers above the scopes
\* so that a set can hold both: the text of scope k is a character common
\* to all scopes followed by one of its own.
Char(c) == NumScopes + 1 + c

Space == Char(0)

ScopeString(k) == <<Char(1), Char(1 + k)>>

\* The `scope` query parameter for a list of scopes: their texts joined by
\* spaces.
RECURSIVE Join(_)
Join(list) ==
    IF list = <<>> THEN <<>>
    ELSE IF Len(list) = 1 THEN ScopeString(list[1])
    ELSE ScopeString(list[1]) \o <<Space>> \o Join(Tail(list))

\* What iterating over a str gives set.update: its characters.
Characters(str) == {str[i] : i \in DOMAIN str}

\* A request without parameters.  code is "absent", "empty" or "given";
\* state is -1 (absent), 0 (empty) or the session id; error is the
\* provider's error text or ""; scope is the list of scopes the `scope`
\* parameter names (<<>>: the parameter is absent).
NoRequest == [code |-> "absent", state |-> -1, error |-> "", scope |-> <<>>]

\* What an endpoint leaves and answers when it does not call the handler.
Answered(mem, fl, page) ==
    [sessions |-> mem, file |-> fl, creds |-> NoCreds, raised |-> FALSE,
     exchanged |-> FALSE, page |-> page]

ProviderDenied_m(request) == FALSE

\* "if error:"
ProviderDenied(request) == request.error # ""

\* fastapi_auth_callback of src/server.py, the endpoint of REDIRECT_URI.
fastapi_auth_callback(mem, fl, request, x, now) ==
    LET r == handle_oauth_callback(mem, fl, request.state, {}, x, now)
    IN  IF ProviderDenied(request)
        THEN Answered(mem, fl, request.error)
        ELSE IF request.code # "given" \/ request.state <= 0
        THEN Answered(mem, fl, "Missing code or state parameter")
        ELSE [sessions |-> r.sessions, file |-> r.file, creds |-> r.creds,
              raised |-> FALSE, exchanged |-> r.exchanged,
              page |-> IF r.raised THEN x.error.error_message
                       ELSE IF r.creds # NoCreds THEN "success.html"
                       ELSE "Failed to obtain credentials"]

\* oauth_callback of src/google_services/auth/oauth_routes.py.  code and
\* state are required parameters (the framework answers 422 without them),
\* error is not a parameter, and the `scope` text itself is passed on as
\* new_scopes.
oauth_callback(mem, fl, request, x, now) ==
    LET r == handle_oauth_callback(mem, fl, request.state,
                                   Characters(Join(request.scope)), x, now)
        mem2 == get_session(r.sessions, r.file)
    IN  IF request.code = "absent" \/ request.state = -1
        THEN Answered(mem, fl, "422")
        ELSE IF request.state = 0
        THEN Answered(mem, fl, "Session ID is required")
        ELSE IF r.raised
        THEN [sessions |-> r.sessions, file |-> r.file, creds |-> NoCreds,
              raised |-> FALSE, exchanged |-> r.exchanged,
              page |-> x.error.error_message]
        ELSE [sessions |-> mem2, file |-> r.file, creds |-> r.creds,
              raised |-> FALSE, exchanged |-> r.exchanged,
              page |-> IF request.state \notin DOMAIN mem2
                          \/ r.creds = NoCreds
                       THEN "Invalid session or authentication failed"
                       ELSE "success.html"]

\* ------------------------------------------------------- service adapters
\* The scopes the adapters ask for (the first two of Scopes).
GMAIL_SCOPE == 1
CALENDAR_SCOPE == 2

\* The operations of GmailAPI and the calendar tools that call the provider.
GmailOperations ==
    {"list_messages", "get_message", "get_labels", "get_attachment",
     "send_email"}

CalendarTools ==
    {"list_calendar_events", "create_calendar_event",
     "update_calendar_event", "delete_calendar_event",
     "search_events_with_attachments", "search_calendar_events",
     "get_calendar_details", "update_event_attendance", "list_calendars"}

\* Whether the operation passes authenticate its scope argument, which the
\* signature of authenticate requires: list_messages passes
\* scope=GMAIL_SCOPE and the calendar tools pass CALENDAR_SCOPE, the other
\* operations of GmailAPI call self.auth.authenticate(session_id).
PassesScope(op) == op = "list_messages" \/ op \in CalendarTools

\* The scope of the service the operation belongs to.
ScopeOf(op) == IF op \in CalendarTools THEN CALENDAR_SCOPE ELSE GMAIL_SCOPE

\* What an adapter operation returned.  api: whether it called the provider
\* API (build and the requests); error: the exception it ended with.
ToolResult(status, api, error) ==
    [status |-> status, api |-> api, error |-> error]

\* An adapter operation for session_id.  A call that lacks a required
\* argument raises TypeError before the body of authenticate runs, and no
\* operation catches what authenticate raises.  api_status is what the
\* operation returns after its requests to the provider: "success", or
\* "error" when one of them raised.
adapter(mem, fl, op, session_id, now, expired, refreshed, api_status) ==
    LET r == authenticate(mem, fl, session_id, {ScopeOf(op)}, now, expired,
                          refreshed)
    IN  IF ~PassesScope(op)
        THEN [sessions |-> mem, file |-> fl, creds |-> NoCreds,
              url |-> NoneUrl, raised |-> TRUE,
              tool |-> ToolResult("", FALSE, "TypeError")]
        ELSE IF r.raised
        THEN [sessions |-> r.sessions, file |-> r.file, creds |-> NoCreds,
              url |-> NoneUrl, raised |-> TRUE,
              tool |-> ToolResult("", FALSE, "RefreshError")]
        ELSE IF r.creds = NoCreds
        THEN [sessions |-> r.sessions, file |-> r.file, creds |-> NoCreds,
              url |-> r.url, raised |-> FALSE,
              tool |-> ToolResult("unauthenticated", FALSE, "")]
        ELSE [sessions |-> r.sessions, file |-> r.file, creds |-> r.creds,
              url |-> NoneUrl, raised |-> FALSE,
              tool |-> ToolResult(api_status, TRUE, "")]

\* ------------------------------------------------------------------ actions
\* The record of a call: its arguments, what the provider answered (ok: the
\* code exchange succeeded; expired, refreshed: see get_credentials), what
\* the call returned (raised: it ended with an exception; has_scope: the
\* boolean of has_scope) and which operation the call before it was.  For a
\* callback endpoint: the request it got and the page it answered with.  For
\* an adapter operation: what it returned (tool).
Call(op, session_id, scopes, new_scopes, answer, r) ==
    [op |-> op, before |-> r.before,
     session_id |-> session_id, scopes |-> scopes,
     new_scopes |-> new_scopes, answer |-> answer, creds |-> r.creds,
     url |-> r.url, raised |-> r.raised, exchanged |-> r.exchanged,
     has_scope |-> r.has_scope, request |-> r.request, page |-> r.page,
     tool |-> r.tool]

NoAnswer ==
    [ok |-> FALSE, expired |-> FALSE, refreshed |-> 0, granted |-> {}]

\* No adapter operation: the call was none.
NoTool == [status |-> "", api |-> FALSE, error |-> ""]

NoCall ==
    Call("none", 0, {}, {}, NoAnswer,
         [creds |-> NoCreds, url |-> NoneUrl, raised |-> FALSE,
          exchanged |-> FALSE, before |-> "none", has_scope |-> FALSE,
          request |-> NoRequest, page |-> "",
                         tool |-> NoTool])

\* One more call, while the run is within MaxCalls.
Count == calls < MaxCalls /\ calls' = calls + 1

\* utcnow() during the call being made.
Now == calls + 1

\* What self.sessions.get(session_id) gives for an unknown id: None.
NoSession == [NewSession({}, 0) EXCEPT !.status = "None"]

\* No answer of the token endpoint (yet).
NoExchange ==
    [ok |-> FALSE, token |-> 0, refresh_token |-> 0, error |-> NoError]

\* A thread that is in no call.  pc is the statement it is about to run;
\* began is the time its call began; session, new_scopes and x are the
\* locals of the call it is in; creds, url, raised and error are what its
\* call returned or raised.
IdleThread ==
    [pc |-> "idle", op |-> "none", inst |-> 0, session_id |-> 0, began |-> 0,
     scope |-> {}, session |-> NoSession, new_scopes |-> {},
     x |-> NoExchange, creds |-> NoCreds, url |-> NoneUrl,
     raised |-> FALSE, error |-> ""]

Init ==
    /\ sessions = EmptyStore
    /\ file = NoFile
    /\ last = NoCall
    /\ calls = 0
    /\ mems = [i \in Instances |-> EmptyStore]
    /\ threads = [t \in Threads |-> IdleThread]
    /\ torn = FALSE

\* auth_start of src/server.py: create_session for a fresh uuid and one
\* scope string, then get_auth_url.
AuthStart(session_id, scope) ==
    LET r == create_session(sessions, session_id, {scope}, Now)
    IN  /\ Count
        /\ session_id \notin DOMAIN sessions
        /\ session_id \notin DOMAIN file.data
        /\ sessions' = r.sessions
        /\ file' = r.file
        /\ last' = Call("create_session", session_id, {scope}, {}, NoAnswer,
                        [creds |-> NoCreds,
                         url |-> get_auth_url(r.sessions, session_id, {}),
                         raised |-> FALSE, exchanged |-> FALSE,
                         before |-> last.op, has_scope |-> FALSE,
                         request |-> NoRequest, page |-> "",
                         tool |-> NoTool])
        /\ UNCHANGED concurrent

Authenticate(session_id, scope, expired, refreshed) ==
    LET r == authenticate(sessions, file, session_id, scope, Now, expired,
                          refreshed)
    IN  /\ Count
        /\ sessions' = r.sessions
        /\ file' = r.file
        /\ last' = Call("authenticate", session_id, scope, {},
                        [ok |-> FALSE, expired |-> expired,
                         refreshed |-> refreshed, granted |-> {}],
                        [creds |-> r.creds, url |-> r.url,
                         raised |-> r.raised, exchanged |-> FALSE,
                         before |-> last.op, has_scope |-> FALSE,
                         request |-> NoRequest, page |-> "",
                         tool |-> NoTool])
        /\ UNCHANGED concurrent

\* The length the history would reach stays within MaxHist.
HistoryFits(session_id, new_scopes) ==
    LET mem0 == get_session(sessions, file)
    IN  session_id \in DOMAIN mem0 =>
          \/ ~RecordsHistory(mem0[session_id].status, new_scopes)
          \/ Len(mem0[session_id].scopes_history) < MaxHist

\* The scopes the flow of a callback is built with.
RequestedScopes(session_id, new_scopes) ==
    LET mem0 == get_session(sessions, file)
    IN  IF session_id \in DOMAIN mem0
        THEN CallbackScopes(mem0[session_id].scopes, new_scopes)
        ELSE {}

\* A callback whose code the provider exchanges for a token issued for the
\* scopes granted (the user can grant fewer than the URL asked for).
Granting(session_id, new_scopes, x, granted) ==
    LET requested == RequestedScopes(session_id, new_scopes)
        r == handle_oauth_callback(sessions, file, session_id, new_scopes,
                                   FetchToken(x, requested, granted), Now)
    IN  /\ Count
        /\ x.ok => HistoryFits(session_id, new_scopes)
        /\ sessions' = r.sessions
        /\ file' = r.file
        /\ last' = Call("handle_oauth_callback", session_id, {}, new_scopes,
                        [ok |-> r.creds # NoCreds, expired |-> FALSE,
                         refreshed |-> 0,
                         granted |-> IF x.ok THEN granted ELSE {}],
                        [creds |-> r.creds, url |-> NoneUrl,
                         raised |-> r.raised, exchanged |-> r.exchanged,
                         before |-> last.op, has_scope |-> FALSE,
                         request |-> NoRequest, page |-> "",
                         tool |-> NoTool])
        /\ UNCHANGED concurrent

\* A callback whose token is issued for all the scopes requested.
HandleOauthCallback(session_id, new_scopes, x) ==
    Granting(session_id, new_scopes, x,
             IF x.ok THEN RequestedScopes(session_id, new_scopes) ELSE {})

GetCredentials(session_id, required_scopes, expired, refreshed) ==
    LET r == get_credentials(sessions, file, session_id, required_scopes,
                             expired, refreshed)
    IN  /\ Count
        /\ sessions' = r.sessions
        /\ file' = r.file
        /\ last' = Call("get_credentials", session_id, required_scopes, {},
                        [ok |-> FALSE, expired |-> expired,
                         refreshed |-> refreshed, granted |-> {}],
                        [creds |-> r.creds, url |-> NoneUrl,
                         raised |-> r.raised, exchanged |-> FALSE,
                         before |-> last.op, has_scope |-> FALSE,
                         request |-> NoRequest, page |-> "",
                         tool |-> NoTool])
        /\ UNCHANGED concurrent

HasScope(session_id, scope) ==
    LET r == has_scope(sessions, file, session_id, scope)
    IN  /\ Count
        /\ sessions' = r.sessions
        /\ file' = r.file
        /\ last' = Call("has_scope", session_id, {scope}, {}, NoAnswer,
                        [creds |-> NoCreds, url |-> NoneUrl,
                         raised |-> FALSE, exchanged |-> FALSE,
                         before |-> last.op, has_scope |-> r.has_scope,
                         request |-> NoRequest, page |-> "",
                         tool |-> NoTool])
        /\ UNCHANGED concurrent

\* Whether get_credentials gets as far as building the credentials, and so
\* reads the expiry (and, expired with a refresh token, calls the provider).
BuildsCreds(mem, session_id, required_scopes) ==
    /\ HasTokenData(mem, session_id)
    /\ \/ required_scopes = {}
       \/ ScopesAuthorized(required_scopes, mem[session_id].token_data.scopes)

\* The token data a session holds, NoTokenData for an unknown session.
TokenDataOf(mem, session_id) ==
    IF session_id \in DOMAIN mem THEN mem[session_id].token_data
                                 ELSE NoTokenData

\* What the library and the provider can answer to a call that builds
\* credentials: not expired; expired and the refresh raises (refreshed = 0)
\* or returns a fresh access token.  A call that reads none of it gets the
\* first.
RefreshAnswers(reads, token) ==
    IF reads
    THEN {[expired |-> FALSE, refreshed |-> 0],
          [expired |-> TRUE, refreshed |-> 0],
          [expired |-> TRUE, refreshed |-> Fresh(token)]}
    ELSE {[expired |-> FALSE, refreshed |-> 0]}

\* The scope lists a callback request can carry.
NewScopeLists == {N \in SUBSET Scopes : Cardinality(N) <= MaxNew}

Next ==
    \/ \E id \in Ids, s \in Scopes : AuthStart(id, s)
    \/ \E id \in Ids, S \in SUBSET Scopes :
         \E a \in RefreshAnswers(
                    /\ BuildsCreds(get_session(sessions, file), id, S)
                    /\ HaveAllRequested(
                           S, get_session(sessions, file)[id].scopes),
                    TokenDataOf(get_session(sessions, file), id).token) :
            Authenticate(id, S, a.expired, a.refreshed)
    \/ \E id \in Ids, N \in NewScopeLists :
         \E x \in Exchanges(id \in DOMAIN get_session(sessions, file),
                            TokenDataOf(get_session(sessions, file), id)) :
            HandleOauthCallback(id, N, x)
    \/ \E id \in Ids, R \in SUBSET Scopes :
         \E a \in RefreshAnswers(BuildsCreds(sessions, id, R),
                                 TokenDataOf(sessions, id).token) :
            GetCredentials(id, R, a.expired, a.refreshed)
    \/ \E id \in Ids, s \in Scopes : HasScope(id, s)

Spec == Init /\ [][Next]_vars

\* ------------------------------------------------------- runs over HTTP
\* The sorted list of a set of scopes.
RECURSIVE ScopeList(_)
ScopeList(N) ==
    IF N = {} THEN <<>>
    ELSE LET k == CHOOSE k \in N : \A j \in N : k <= j
         IN  <<k>> \o ScopeList(N \ {k})

\* The requests a callback endpoint can get.
Requests ==
    [code : {"absent", "empty", "given"}, state : {-1, 0} \cup Ids,
     error : {"", "access_denied"},
     scope : {ScopeList(N) : N \in NewScopeLists}]

\* The scopes a request names.
Named(request) == {request.scope[i] : i \in DOMAIN request.scope}

\* Whether the endpoint hands the request to handle_oauth_callback.
Handled(op, request) ==
    IF op = "fastapi_auth_callback"
    THEN request.error = "" /\ request.code = "given" /\ request.state > 0
    ELSE request.code # "absent" /\ request.state > 0

\* What the token endpoint can answer: nothing is asked for a request that
\* is not handled or names an unknown session, and an empty code is refused.
RouteExchanges(op, request) ==
    LET all == Exchanges(/\ Handled(op, request)
                         /\ request.state \in DOMAIN get_session(sessions,
                                                                 file),
                         TokenDataOf(get_session(sessions, file),
                                     request.state))
    IN  {x \in all : x.ok => request.code = "given"}

\* One request to a callback endpoint.
Callback(op, request, x, r) ==
    /\ Count
    /\ (Handled(op, request) /\ x.ok) =>
          HistoryFits(request.state,
                      IF op = "oauth_callback"
                      THEN Characters(Join(request.scope)) ELSE {})
    /\ sessions' = r.sessions
    /\ file' = r.file
    /\ last' = Call(op, IF request.state > 0 THEN request.state ELSE 0, {},
                    Named(request),
                    [ok |-> x.ok, expired |-> FALSE, refreshed |-> 0,
                     granted |-> r.creds.scopes],
                    [creds |-> r.creds, url |-> NoneUrl,
                     raised |-> r.raised, exchanged |-> r.exchanged,
                     before |-> last.op, has_scope |-> FALSE,
                     request |-> request, page |-> r.page,
                     tool |-> NoTool])
    /\ UNCHANGED concurrent

FastapiAuthCallback(request, x) ==
    /\ request.scope = <<>>
    /\ Callback("fastapi_auth_callback", request, x,
                fastapi_auth_callback(sessions, file, request, x, Now))

\* The provider sends error without code; a request that is not handled
\* is taken without the scope parameter, which nothing reads then.
OauthCallback(request, x) ==
    /\ request.error # "" => request.code = "absent"
    /\ ~Handled("oauth_callback", request) => request.scope = <<>>
    /\ Callback("oauth_callback", request, x,
                oauth_callback(sessions, file, request, x, Now))

NextRoutes ==
    \/ \E id \in Ids, s \in Scopes : AuthStart(id, s)
    \/ \E id \in Ids, S \in SUBSET Scopes :
         Authenticate(id, S, FALSE, 0)
    \/ \E request \in Requests :
         \E x \in RouteExchanges("fastapi_auth_callback", request) :
            FastapiAuthCallback(request, x)
    \/ \E request \in Requests :
         \E x \in RouteExchanges("oauth_callback", request) :
            OauthCallback(request, x)

SpecRoutes == Init /\ [][NextRoutes]_vars

\* ------------------------------------------------------ runs of the tools
\* One call of an adapter operation.
Tool(op, session_id, expired, refreshed, api_status) ==
    LET r == adapter(sessions, file, op, session_id, Now, expired, refreshed,
                     api_status)
    IN  /\ Count
        /\ r.tool.api \/ api_status = "success"
        /\ sessions' = r.sessions
        /\ file' = r.file
        /\ last' = Call(op, session_id, {ScopeOf(op)}, {},
                        [ok |-> FALSE, expired |-> expired,
                         refreshed |-> refreshed, granted |-> {}],
                        [creds |-> r.creds, url |-> r.url,
                         raised |-> r.raised, exchanged |-> FALSE,
                         before |-> last.op, has_scope |-> FALSE,
                         request |-> NoRequest, page |-> "",
                         tool |-> r.tool])
        /\ UNCHANGED concurrent

\* What the library and the provider can answer to the authenticate call of
\* an adapter operation: nothing is asked when the call raises TypeError.
ToolAnswers(op, id) ==
    RefreshAnswers(
        /\ PassesScope(op)
        /\ BuildsCreds(get_session(sessions, file), id, {ScopeOf(op)})
        /\ HaveAllRequested({ScopeOf(op)},
                            get_session(sessions, file)[id].scopes),
        TokenDataOf(get_session(sessions, file), id).token)

NextTools ==
    \/ \E id \in Ids, s \in Scopes : AuthStart(id, s)
    \/ \E id \in Ids :
         \E x \in Exchanges(id \in DOMAIN get_session(sessions, file),
                            TokenDataOf(get_session(sessions, file), id)) :
            HandleOauthCallback(id, {}, x)
    \/ \E op \in GmailOperations \cup CalendarTools, id \in Ids :
         \E a \in ToolAnswers(op, id), api_status \in {"success", "error"} :
            Tool(op, id, a.expired, a.refreshed, api_status)

SpecTools == Init /\ [][NextTools]_vars

\* --------------------------------------------------------- concurrent runs
\* Threads call into instances of GoogleUnifiedAuth that share the sessions
\* file: the module-level instance of src/server.py is used by the thread of
\* the auth server and by the thread of the MCP server, and every tool call
\* constructs or holds an instance of its own.  A call runs one statement
\* group at a time: the reload of get_session, the request to the token
\* endpoint, the assignments to self.sessions, open(file, 'w'), json.dump,
\* and the last read of self.sessions.  The locals a call reads from the
\* session it looked up are read with the reload; no token is expired.

\* The thread main() starts for run_auth_server: it serves /auth/callback.
\* Every other thread serves auth_start, auth_status and the tools.
AuthThread == 1

\* The module-level "auth = GoogleUnifiedAuth()" of src/server.py.
ServerInstance == 1

\* The scope lists the concurrent callers pass.
ConcScopeLists == {{1}, {1, 2}}

\* utcnow() during a step of a concurrent run.
ConcNow == calls

\* A call that returned creds and url.
Returned(th, creds, url) ==
    [IdleThread EXCEPT !.pc = "done", !.op = th.op, !.inst = th.inst,
                       !.session_id = th.session_id, !.scope = th.scope,
                       !.creds = creds, !.url = url]

\* A call that ended with an exception of type error.
Raised(th, error) ==
    [IdleThread EXCEPT !.pc = "done", !.op = th.op, !.inst = th.inst,
                       !.session_id = th.session_id, !.scope = th.scope,
                       !.raised = TRUE, !.error = error]

\* The ids in use: stored, or named by a call.
UsedIds ==
    DOMAIN file.data \cup UNION {DOMAIN mems[i] : i \in Instances}
                    \cup {threads[t].session_id : t \in Threads}

\* An id nobody has used: what uuid4() gives auth_start (the next one).
FreshId(session_id) ==
    /\ session_id \notin UsedIds
    /\ \A j \in SessionIds \ UsedIds : session_id <= j

\* A thread enters create_session (from auth_start), authenticate or
\* handle_oauth_callback on an instance.
StartCall(t, op, inst, session_id, scope) ==
    /\ threads[t].pc \in {"idle", "done"}
    /\ calls < MaxOps
    /\ calls' = calls + 1
    /\ op = "create_session" =>
          /\ t # AuthThread /\ inst = ServerInstance
          /\ FreshId(session_id) /\ Cardinality(scope) = 1
    /\ op = "authenticate" => t # AuthThread /\ scope # {}
    /\ op = "handle_oauth_callback" =>
          t = AuthThread /\ inst = ServerInstance /\ scope = {}
    /\ threads' = [threads EXCEPT ![t] =
                     [IdleThread EXCEPT
                        !.pc = IF op = "create_session" THEN "mutate"
                                                        ELSE "load",
                        !.op = op, !.inst = inst, !.began = calls + 1,
                        !.session_id = session_id, !.scope = scope]]
    /\ UNCHANGED <<sessions, file, last, mems, torn>>

\* Where authenticate goes after "session = self.get_session(session_id)".
AfterLookup(th, session) ==
    IF session # NoSession /\ session.token_data # NoTokenData
    THEN [th EXCEPT !.session = session,
                    !.pc = IF HaveAllRequested(th.scope, session.scopes)
                           THEN "resolve" ELSE "mutate"]
    ELSE IF session = NoSession
         THEN [th EXCEPT !.pc = "mutate"]
         ELSE [th EXCEPT !.session = session, !.pc = "url"]

\* get_session: json.load of a file that is open for writing or garbled
\* raises JSONDecodeError before self.sessions is assigned.
Reload(t) ==
    LET th == threads[t]
        mem1 == LoadSessions(mems[th.inst], file)
        session == IF th.session_id \in DOMAIN mem1
                   THEN mem1[th.session_id] ELSE NoSession
    IN  /\ th.pc = "load"
        /\ IF torn
           THEN /\ threads' = [threads EXCEPT
                                 ![t] = Raised(th, "JSONDecodeError")]
                /\ UNCHANGED mems
           ELSE /\ mems' = [mems EXCEPT ![th.inst] = mem1]
                /\ threads' = [threads EXCEPT ![t] =
                     IF th.op = "authenticate"
                     THEN AfterLookup(th, session)
                     ELSE IF session = NoSession
                          THEN Returned(th, NoCreds, NoneUrl)
                          ELSE [th EXCEPT !.session = session,
                                          !.pc = "exchange"]]
        /\ UNCHANGED <<sessions, file, last, calls, torn>>

\* authenticate: "creds = self.get_credentials(...); if creds: return".
Resolve(t) ==
    LET th == threads[t]
        got == get_credentials(mems[th.inst], file, th.session_id, th.scope,
                               FALSE, 0)
    IN  /\ th.pc = "resolve"
        /\ threads' = [threads EXCEPT ![t] =
                         IF got.creds # NoCreds
                         THEN Returned(th, got.creds, NoneUrl)
                         ELSE [th EXCEPT !.pc = "mutate"]]
        /\ UNCHANGED <<sessions, file, last, calls, mems, torn>>

\* handle_oauth_callback: flow.fetch_token(code=code) is answered.
Exchange(t, x) ==
    LET th == threads[t]
    IN  /\ th.pc = "exchange"
        /\ threads' = [threads EXCEPT ![t] = [th EXCEPT !.x = x,
                                                        !.pc = "mutate"]]
        /\ UNCHANGED <<sessions, file, last, calls, mems, torn>>

\* The session a call assigns into self.sessions[session_id], NoSession
\* when the subscript raises KeyError (the entry is gone).
Assigned(th, mem) ==
    LET known == th.session_id \in DOMAIN mem
        scopes == CallbackScopes(th.session.scopes, {})
    IN  IF th.op = "create_session"
           \/ (th.op = "authenticate" /\ th.session = NoSession)
        THEN NewSession(th.scope, ConcNow)
        ELSE IF ~known
        THEN NoSession
        ELSE IF th.op = "authenticate"
        THEN AwaitAdditionalScopes(mem[th.session_id],
                 CombinedScopes(th.session.scopes, th.scope))
        ELSE IF th.x.ok
        THEN CompletedSession(
                 [mem[th.session_id] EXCEPT !.status = th.session.status],
                 scopes,
                 NewTokenData(th.x, scopes, th.session.token_data, ConcNow),
                 {}, ConcNow)
        ELSE FailedSession(mem[th.session_id], th.x.error, ConcNow)

\* The assignments to self.sessions of create_session, of authenticate
\* ("New scopes needed") and of handle_oauth_callback (commit or except).
Mutate(t) ==
    LET th == threads[t]
        s == Assigned(th, mems[th.inst])
    IN  /\ th.pc = "mutate"
        /\ IF s = NoSession
           THEN /\ threads' = [threads EXCEPT ![t] =
                      Raised(th, IF th.op = "handle_oauth_callback"
                                    /\ ~th.x.ok
                                 THEN th.x.error.error_type
                                 ELSE "KeyError")]
                /\ UNCHANGED mems
           ELSE /\ mems' = [mems EXCEPT
                              ![th.inst] = Put(@, th.session_id, s)]
                /\ threads' = [threads EXCEPT ![t] =
                      [th EXCEPT !.pc = "open",
                                 !.new_scopes =
                                    IF th.op = "authenticate"
                                       /\ th.session # NoSession
                                    THEN s.scopes ELSE {}]]
        /\ UNCHANGED <<sessions, file, last, calls, torn>>

\* _save_sessions: open(self.sessions_file, 'w') empties the file.  While
\* torn holds, file.data is what the file held before.
Open(t) ==
    /\ threads[t].pc = "open"
    /\ file' = [file EXCEPT !.exists = TRUE]
    /\ torn' = TRUE
    /\ threads' = [threads EXCEPT ![t].pc = "dump"]
    /\ UNCHANGED <<sessions, last, calls, mems>>

\* What the call does after _save_sessions.
AfterSave(th) ==
    IF th.op = "handle_oauth_callback"
    THEN IF th.x.ok
         THEN Returned(th, FlowCredentials(th.x,
                               CallbackScopes(th.session.scopes, {})),
                       NoneUrl)
         ELSE Raised(th, th.x.error.error_type)
    ELSE [th EXCEPT !.pc = "url"]

\* _save_sessions: json.dump(self.sessions, f) and the close of the file.
\* A handle opened before another thread wrote the file writes over that
\* text from the start: the file holds this call's text (garbled = FALSE)
\* or its text followed by the rest of the longer one (garbled = TRUE).
Dump(t, garbled) ==
    LET th == threads[t]
    IN  /\ th.pc \in {"dump", "dump_over"}
        /\ garbled => th.pc = "dump_over"
        /\ file' = IF garbled THEN file ELSE SaveSessions(mems[th.inst])
        /\ torn' = garbled
        /\ threads' = [u \in Threads |->
                         IF u = t THEN AfterSave(th)
                         ELSE IF threads[u].pc = "dump"
                              THEN [threads[u] EXCEPT !.pc = "dump_over"]
                              ELSE threads[u]]
        /\ UNCHANGED <<sessions, last, calls, mems>>

\* The call of get_auth_url that ends auth_start and authenticate.
Url(t) ==
    LET th == threads[t]
    IN  /\ th.pc = "url"
        /\ threads' = [threads EXCEPT ![t] =
                         Returned(th, NoCreds,
                                  get_auth_url(mems[th.inst], th.session_id,
                                               th.new_scopes))]
        /\ UNCHANGED <<sessions, file, last, calls, mems, torn>>

NextConc ==
    \/ \E t \in Threads, i \in Instances, id \in SessionIds :
         \/ \E S \in ConcScopeLists :
              \/ StartCall(t, "create_session", i, id, S)
              \/ StartCall(t, "authenticate", i, id, S)
         \/ StartCall(t, "handle_oauth_callback", i, id, {})
    \/ \E t \in Threads : Reload(t)
    \/ \E t \in Threads : Resolve(t)
    \/ \E t \in Threads :
         \E x \in Exchanges(TRUE, threads[t].session.token_data) :
            Exchange(t, x)
    \/ \E t \in Threads : Mutate(t)
    \/ \E t \in Threads : Open(t)
    \/ \E t \in Threads, garbled \in BOOLEAN : Dump(t, garbled)
    \/ \E t \in Threads : Url(t)

SpecConc == Init /\ [][NextConc]_vars

\* ------------------------------------------ runs of several sessions
\* The redirects of the provider to REDIRECT_URI: the state of the
\* authorization URL with a code, or with the error and no code.
Redirects ==
    { [code |-> "given", state |-> id, error |-> "", scope |-> <<>>] :
        id \in SessionIds }
    \cup
    { [code |-> "absent", state |-> id, error |-> "access_denied",
       scope |-> <<>>] : id \in SessionIds }

\* auth_start and the tools' authenticate for several sessions, and the
\* redirects /auth/callback gets.
NextUrls ==
    \/ \E id \in SessionIds, s \in {GMAIL_SCOPE, CALENDAR_SCOPE} :
         AuthStart(id, s)
    \/ \E id \in SessionIds, S \in ConcScopeLists :
         Authenticate(id, S, FALSE, 0)
    \/ \E request \in Redirects :
         \E x \in RouteExchanges("fastapi_auth_callback", request) :
            FastapiAuthCallback(request, x)

SpecUrls == Init /\ [][NextUrls]_vars

\* ------------------------------------------- runs over a stored file
\* The records a sessions file written by an earlier version can hold: a
\* pending session with or without the singular 'scope' key, with or
\* without 'scopes'.
StoredRecords ==
    { [NewSession(S, 0) EXCEPT !.scope = k] :
        S \in {{}, {NumScopes}},
        k \in {0, NotAString, GMAIL_SCOPE, CALENDAR_SCOPE} }

\* The sessions files the program can find when it starts: none, or one
\* with such records.
StoredFiles ==
    {NoFile} \cup
    UNION { { [exists |-> TRUE, data |-> d] : d \in [D -> StoredRecords] } :
            D \in SUBSET SessionIds }

\* The state after GoogleUnifiedAuth() over a stored file: __init__ loads.
InitStored ==
    /\ file \in StoredFiles
    /\ sessions = LoadSessions(EmptyStore, file)
    /\ last = NoCall
    /\ calls = 0
    /\ mems = [i \in Instances |-> EmptyStore]
    /\ threads = [t \in Threads |-> IdleThread]
    /\ torn = FALSE

\* reload_sessions
ReloadSessions ==
    /\ Count
    /\ sessions' = LoadSessions(sessions, file)
    /\ file' = file
    /\ last' = Call("reload_sessions", 0, {}, {}, NoAnswer,
                    [creds |-> NoCreds, url |-> NoneUrl,
                     raised |-> FALSE, exchanged |-> FALSE,
                     before |-> last.op, has_scope |-> FALSE,
                     request |-> NoRequest, page |-> "",
                     tool |-> NoTool])
    /\ UNCHANGED concurrent

NextStored ==
    \/ ReloadSessions
    \/ \E id \in SessionIds : Authenticate(id, {GMAIL_SCOPE}, FALSE, 0)
    \/ \E id \in SessionIds :
         \E x \in Exchanges(id \in DOMAIN get_session(sessions, file),
                            TokenDataOf(get_session(sessions, file), id)) :
            HandleOauthCallback(id, {}, x)

SpecStored == InitStored /\ [][NextStored]_vars

\* --------------------------------------------------- runs with consent
\* The scopes the user can grant of those requested: some, at least one.
Grants(requested) == (SUBSET requested) \ {{}}

\* Sessions are created and extended, the provider grants all or a part of
\* what a URL asked for, and credentials are resolved.
NextGrants ==
    \/ \E id \in Ids, s \in Scopes : AuthStart(id, s)
    \/ \E id \in Ids, S \in SUBSET Scopes : Authenticate(id, S, FALSE, 0)
    \/ \E id \in Ids :
         \E x \in Exchanges(id \in DOMAIN get_session(sessions, file),
                            TokenDataOf(get_session(sessions, file), id)) :
            \E granted \in IF x.ok THEN Grants(RequestedScopes(id, {}))
                                   ELSE {{}} :
               Granting(id, {}, x, granted)
    \/ \E id \in Ids, R \in SUBSET Scopes : GetCredentials(id, R, FALSE, 0)

SpecGrants == Init /\ [][NextGrants]_vars

\* ------------------------------------------- races on one session
\* The calls that authorized the session the racing calls find: auth_start
\* and the callback.
SetUpCalls == 2

\* The session id 1 after auth_start for GMAIL_SCOPE at time 1 and a
\* callback at time 2 whose exchange issued the first tokens.
AuthorizedStore ==
    LET made == create_session(EmptyStore, 1, {GMAIL_SCOPE}, 1)
        x == CHOOSE x \in Exchanges(TRUE, NoTokenData) :
                 x.ok /\ x.refresh_token # 0
    IN  handle_oauth_callback(made.sessions, made.file, 1, {}, x,
                              SetUpCalls)

\* The state in which tool calls meet an authorized session: every
\* instance has loaded the file.
InitAuthorized ==
    /\ sessions = AuthorizedStore.sessions
    /\ file = AuthorizedStore.file
    /\ last = NoCall
    /\ calls = SetUpCalls
    /\ mems = [i \in Instances |-> LoadSessions(EmptyStore, file)]
    /\ threads = [t \in Threads |-> IdleThread]
    /\ torn = FALSE

\* The scope lists the racing callers pass: each asks for one scope the
\* session does not record.
RaceScopeLists == {{s} : s \in Scopes \ {GMAIL_SCOPE}}

\* A tool call enters authenticate(session_id, scope) on an instance, in
\* any thread; one call per thread is followed.
StartTool(t, inst, session_id, scope) ==
    /\ threads[t].pc = "idle"
    /\ calls' = calls + 1
    /\ threads' = [threads EXCEPT ![t] =
                     [IdleThread EXCEPT !.pc = "load", !.op = "authenticate",
                                        !.inst = inst, !.began = calls + 1,
                                        !.session_id = session_id,
                                        !.scope = scope]]
    /\ UNCHANGED <<sessions, file, last, mems, torn>>

NextRace ==
    \/ \E t \in Threads, i \in Instances, S \in RaceScopeLists :
         StartTool(t, i, 1, S)
    \/ \E t \in Threads : Reload(t)
    \/ \E t \in Threads : Resolve(t)
    \/ \E t \in Threads : Mutate(t)
    \/ \E t \in Threads : Open(t)
    \/ \E t \in Threads, garbled \in BOOLEAN : Dump(t, garbled)
    \/ \E t \in Threads : Url(t)

SpecRace == InitAuthorized /\ [][NextRace]_vars

\* -------------------------------------------- runs of the operations
\* The scope lists the callers pass, the empty one among them.
CallerScopeLists == {{}} \cup ConcScopeLists

\* The operations of the class on several sessions, each session created
\* by the first authenticate call for its id.
NextSessions ==
    \/ \E id \in SessionIds, S \in CallerScopeLists :
         Authenticate(id, S, FALSE, 0)
    \/ \E id \in SessionIds :
         \E x \in Exchanges(id \in DOMAIN get_session(sessions, file),
                            TokenDataOf(get_session(sessions, file), id)) :
            HandleOauthCallback(id, {}, x)
    \/ \E id \in SessionIds : HasScope(id, GMAIL_SCOPE)
    \/ \E id \in SessionIds :
         \E a \in RefreshAnswers(BuildsCreds(sessions, id, {}),
                                 TokenDataOf(sessions, id).token) :
            GetCredentials(id, {}, a.expired, a.refreshed)

SpecSessions == Init /\ [][NextSessions]_vars

\* ------------------------------------------------ runs with updates
\* The values of the status enumeration.
Statuses == {"pending", "pending_additional_scopes", "completed", "failed"}

\* The token data a caller of update_session can pass: none, or a token
\* for GMAIL_SCOPE.
GivenTokenData ==
    {NoTokenData,
     [NoTokenData EXCEPT !.token = 1, !.client_id = CLIENT_ID,
                         !.client_secret = CLIENT_SECRET,
                         !.scopes = {GMAIL_SCOPE}]}

UpdateSession(session_id, status, token_data) ==
    LET r == update_session(sessions, file, session_id, status, token_data)
    IN  /\ Count
        /\ sessions' = r.sessions
        /\ file' = r.file
        /\ last' = Call("update_session", session_id, {}, {}, NoAnswer,
                        [creds |-> NoCreds, url |-> NoneUrl,
                         raised |-> FALSE, exchanged |-> FALSE,
                         before |-> last.op, has_scope |-> FALSE,
                         request |-> NoRequest, page |-> "",
                         tool |-> NoTool])
        /\ UNCHANGED concurrent

\* The operations that write the status of a session.
NextUpdates ==
    \/ \E id \in Ids, s \in Scopes : AuthStart(id, s)
    \/ \E id \in Ids, S \in ConcScopeLists : Authenticate(id, S, FALSE, 0)
    \/ \E id \in Ids :
         \E x \in Exchanges(id \in DOMAIN get_session(sessions, file),
                            TokenDataOf(get_session(sessions, file), id)) :
            HandleOauthCallback(id, {}, x)
    \/ \E id \in Ids, status \in Statuses, token_data \in GivenTokenData :
         UpdateSession(id, status, token_data)

SpecUpdates == Init /\ [][NextUpdates]_vars

\* ------------------------------------------------ runs of a round trip
\* A caller of authenticate that got (None, url): it goes through the
\* consent screen and calls authenticate again with the same scope.
Asked(session_id, scope) ==
    [IdleThread EXCEPT !.pc = "asked", !.op = "authenticate",
                       !.session_id = session_id, !.scope = scope]

\* The caller after the provider redirected it to a callback that succeeded.
Consented(th) == [th EXCEPT !.pc = "consented"]

\* auth_start, by a caller that is not in a round trip (any longer).
TripStart(session_id, scope) ==
    LET r == create_session(sessions, session_id, {scope}, Now)
    IN  /\ Count
        /\ session_id \notin DOMAIN sessions
        /\ session_id \notin DOMAIN file.data
        /\ sessions' = r.sessions
        /\ file' = r.file
        /\ last' = Call("create_session", session_id, {scope}, {}, NoAnswer,
                        [creds |-> NoCreds,
                         url |-> get_auth_url(r.sessions, session_id, {}),
                         raised |-> FALSE, exchanged |-> FALSE,
                         before |-> last.op, has_scope |-> FALSE,
                         request |-> NoRequest, page |-> "",
                         tool |-> NoTool])
        /\ threads' = [t \in Threads |-> IdleThread]
        /\ UNCHANGED <<mems, torn>>

\* authenticate(session_id, scope) with a token that has not expired; the
\* caller starts a round trip when it gets (None, url).
TripAuthenticate(session_id, scope) ==
    LET r == authenticate(sessions, file, session_id, scope, Now, FALSE, 0)
    IN  /\ Count
        /\ sessions' = r.sessions
        /\ file' = r.file
        /\ last' = Call("authenticate", session_id, scope, {}, NoAnswer,
                        [creds |-> r.creds, url |-> r.url,
                         raised |-> r.raised, exchanged |-> FALSE,
                         before |-> last.op, has_scope |-> FALSE,
                         request |-> NoRequest, page |-> "",
                         tool |-> NoTool])
        /\ threads' = [t \in Threads |->
                         IF r.creds = NoCreds /\ ~r.raised /\ r.url # NoneUrl
                         THEN Asked(session_id, scope)
                         ELSE IdleThread]
        /\ UNCHANGED <<mems, torn>>

\* handle_oauth_callback(session_id, code, new_scopes); the round trip of
\* the caller goes on when the callback is for its session, passes no new
\* scopes and succeeds.
TripCallback(session_id, new_scopes, x) ==
    LET requested == RequestedScopes(session_id, new_scopes)
        r == handle_oauth_callback(sessions, file, session_id, new_scopes,
                                   FetchToken(x, requested, requested), Now)
    IN  /\ Count
        /\ x.ok => HistoryFits(session_id, new_scopes)
        /\ sessions' = r.sessions
        /\ file' = r.file
        /\ last' = Call("handle_oauth_callback", session_id, {}, new_scopes,
                        [ok |-> r.creds # NoCreds, expired |-> FALSE,
                         refreshed |-> 0,
                         granted |-> IF x.ok THEN requested ELSE {}],
                        [creds |-> r.creds, url |-> NoneUrl,
                         raised |-> r.raised, exchanged |-> r.exchanged,
                         before |-> last.op, has_scope |-> FALSE,
                         request |-> NoRequest, page |-> "",
                         tool |-> NoTool])
        /\ threads' = [t \in Threads |->
                         IF /\ threads[t].pc = "asked"
                            /\ threads[t].session_id = session_id
                            /\ new_scopes = {}
                            /\ r.creds # NoCreds
                         THEN Consented(threads[t])
                         ELSE IdleThread]
        /\ UNCHANGED <<mems, torn>>

NextTrips ==
    \/ \E id \in Ids, s \in Scopes : TripStart(id, s)
    \/ \E id \in Ids, S \in SUBSET Scopes : TripAuthenticate(id, S)
    \/ \E id \in Ids, N \in NewScopeLists :
         \E x \in Exchanges(id \in DOMAIN get_session(sessions, file),
                            TokenDataOf(get_session(sessions, file), id)) :
            TripCallback(id, N, x)

SpecTrips == Init /\ [][NextTrips]_vars

\* ------------------------------------------------ runs with the status
\* auth_status of src/server.py for the query parameters session_id (0: not
\* given) and scope (0: not given, which reads as ''): the "status" of the
\* JSON it answers with and the auth_url in it.  An authorized session
\* lacking the scope is sent through authenticate.
auth_status(mem, fl, session_id, scope, now) ==
    LET mem0 == get_session(mem, fl)
        has  == has_scope(mem0, fl, session_id, scope)
        auth == authenticate(has.sessions, has.file, session_id, {scope},
                             now, FALSE, 0)
    IN  IF session_id = 0
        THEN [sessions |-> mem, file |-> fl, status |-> "error",
              url |-> NoneUrl]
        ELSE IF session_id \notin DOMAIN mem0
        THEN [sessions |-> mem0, file |-> fl, status |-> "not_found",
              url |-> NoneUrl]
        ELSE IF /\ mem0[session_id].status = "completed"
                /\ HasTokenData(mem0, session_id)
        THEN IF scope # 0 /\ ~has.has_scope
             THEN [sessions |-> auth.sessions, file |-> auth.file,
                   status |-> "needs_additional_scope", url |-> auth.url]
             ELSE [sessions |-> mem0, file |-> fl,
                   status |-> "authenticated", url |-> NoneUrl]
        ELSE [sessions |-> mem0, file |-> fl,
              status |-> mem0[session_id].status, url |-> NoneUrl]

\* GET /auth/status; the record of the call keeps the status answered as
\* its page.
AuthStatus(session_id, scope) ==
    LET r == auth_status(sessions, file, session_id, scope, Now)
    IN  /\ Count
        /\ sessions' = r.sessions
        /\ file' = r.file
        /\ last' = Call("auth_status", session_id,
                        IF scope = 0 THEN {} ELSE {scope}, {}, NoAnswer,
                        [creds |-> NoCreds, url |-> r.url,
                         raised |-> FALSE, exchanged |-> FALSE,
                         before |-> last.op, has_scope |-> FALSE,
                         request |-> NoRequest, page |-> r.status,
                         tool |-> NoTool])
        /\ UNCHANGED concurrent

NextStatus ==
    \/ \E id \in Ids, s \in Scopes : AuthStart(id, s)
    \/ \E id \in Ids, S \in CallerScopeLists : Authenticate(id, S, FALSE, 0)
    \/ \E id \in Ids :
         \E x \in Exchanges(id \in DOMAIN get_session(sessions, file),
                            TokenDataOf(get_session(sessions, file), id)) :
            HandleOauthCallback(id, {}, x)
    \/ \E id \in {0} \cup Ids, scope \in {0} \cup Scopes :
         AuthStatus(id, scope)

SpecStatus == Init /\ [][NextStatus]_vars

\* ----------------------------------------- runs that create sessions
\* create_session(session_id, scopes) called with any id, one the store
\* holds included.
CreateSession(session_id, scopes) ==
    LET r == create_session(sessions, session_id, scopes, Now)
    IN  /\ Count
        /\ sessions' = r.sessions
        /\ file' = r.file
        /\ last' = Call("create_session", session_id, scopes, {}, NoAnswer,
                        [creds |-> NoCreds, url |-> NoneUrl,
                         raised |-> FALSE, exchanged |-> FALSE,
                         before |-> last.op, has_scope |-> FALSE,
                         request |-> NoRequest, page |-> "",
                         tool |-> NoTool])
        /\ UNCHANGED concurrent

NextCreates ==
    \/ \E id \in Ids, S \in ConcScopeLists : CreateSession(id, S)
    \/ \E id \in Ids, S \in ConcScopeLists : Authenticate(id, S, FALSE, 0)
    \/ \E id \in Ids, N \in NewScopeLists :
         \E x \in Exchanges(id \in DOMAIN get_session(sessions, file),
                            TokenDataOf(get_session(sessions, file), id)) :
            HandleOauthCallback(id, N, x)

SpecCreates == Init /\ [][NextCreates]_vars

\* ------------------------------------- runs of a callback among calls
\* The provider's redirect for an authorized session reaches the server:
\* the auth thread enters handle_oauth_callback(session_id, code) on the
\* server's instance.
StartCallback(t, session_id) ==
    /\ threads[t].pc = "idle"
    /\ t = AuthThread
    /\ calls' = calls + 1
    /\ threads' = [threads EXCEPT ![t] =
                     [IdleThread EXCEPT !.pc = "load",
                                        !.op = "handle_oauth_callback",
                                        !.inst = ServerInstance,
                                        !.began = calls + 1,
                                        !.session_id = session_id]]
    /\ UNCHANGED <<sessions, file, last, mems, torn>>

\* A callback for the authorized session while tool calls authenticate
\* for it, on the server's instance or on another one.
NextCommit ==
    \/ \E t \in Threads, i \in Instances, S \in RaceScopeLists :
         StartTool(t, i, 1, S)
    \/ \E t \in Threads : StartCallback(t, 1)
    \/ \E t \in Threads : Reload(t)
    \/ \E t \in Threads : Resolve(t)
    \/ \E t \in Threads :
         \E x \in Exchanges(TRUE, threads[t].session.token_data) :
            Exchange(t, x)
    \/ \E t \in Threads : Mutate(t)
    \/ \E t \in Threads : Open(t)
    \/ \E t \in Threads, garbled \in BOOLEAN : Dump(t, garbled)
    \/ \E t \in Threads : Url(t)

SpecCommit == InitAuthorized /\ [][NextCommit]_vars

\* ------------------------------------------------------------------- claims
\* The persisted store: what get_session serves.
Store == get_session(sessions, file)

\* The step is a call of op for session id.
Calls(op, id) == last'.op = op /\ last'.session_id = id

\* The step is a callback for id whose code exchange succeeded / failed.
CallbackSucceeds(id) ==
    /\ Calls("handle_oauth_callback", id)
    /\ id \in DOMAIN Store
    /\ last'.answer.ok

CallbackFails(id) ==
    /\ Calls("handle_oauth_callback", id)
    /\ id \in DOMAIN Store
    /\ ~last'.answer.ok

\* C1: after each call (authenticate and handle_oauth_callback among them,
\* successful or failing) every session is still stored and its scopes
\* contain the scopes it had before the call.
C1_ScopesMonotone ==
    [][\A id \in DOMAIN Store :
          /\ id \in DOMAIN Store'
          /\ Store[id].scopes \subseteq Store'[id].scopes]_vars

\* An authenticate call has just added a scope to a session with a token.
C1_Witness ==
    /\ last.op = "authenticate"
    /\ last.session_id \in DOMAIN Store
    /\ Store[last.session_id].status = "pending_additional_scopes"
    /\ Store[last.session_id].token_data.scopes # Store[last.session_id].scopes
    /\ last.scopes \subseteq Store[last.session_id].scopes

\* C2: a stored refresh token is never dropped, and a successful callback
\* for a session that holds one stores the refresh token the exchange
\* issued, or exactly the stored one when the exchange issued none.
C2_RefreshTokenKept ==
    [][\A id \in DOMAIN Store :
          Store[id].token_data.refresh_token # 0 =>
            /\ id \in DOMAIN Store'
            /\ Store'[id].token_data.refresh_token # 0
            /\ CallbackSucceeds(id) =>
                 Store'[id].token_data.refresh_token =
                   IF last'.creds.refresh_token # 0
                   THEN last'.creds.refresh_token
                   ELSE Store[id].token_data.refresh_token]_vars

\* A successful callback whose exchange issued no refresh token has left a
\* refresh token in the store.
C2_Witness ==
    /\ last.op = "handle_oauth_callback"
    /\ last.answer.ok
    /\ last.creds # NoCreds
    /\ last.creds.refresh_token = 0
    /\ Store[last.session_id].token_data.refresh_token # 0

\* C3: a callback whose token exchange fails for an existing session ends
\* with the exception, leaves the session failed with last_error holding the
\* time, type and message of the failure, persists that, and leaves
\* token_data as it was, so get_credentials resolves what it resolved before.
C3_FailedCallback ==
    [][\A id \in Ids :
          CallbackFails(id) =>
            /\ last'.raised
            /\ last'.creds = NoCreds
            /\ Store'[id].status = "failed"
            /\ Store'[id].last_error.error_time = Now
            /\ \E e \in ExchangeErrors :
                  /\ Store'[id].last_error.error_type = e.error_type
                  /\ Store'[id].last_error.error_message = e.error_message
            /\ file'.exists /\ file'.data = sessions'
            /\ Store'[id].token_data = Store[id].token_data
            /\ \A R \in SUBSET Scopes :
                  get_credentials(sessions', file', id, R, FALSE, 0).creds
                    = get_credentials(Store, file, id, R, FALSE, 0).creds]_vars

\* A callback has failed for a session that holds a token, and
\* get_credentials still resolves the scopes of that token.
C3_Witness ==
    /\ last.op = "handle_oauth_callback"
    /\ last.raised
    /\ Store[last.session_id].status = "failed"
    /\ Store[last.session_id].token_data # NoTokenData
    /\ get_credentials(sessions, file, last.session_id,
                       Store[last.session_id].token_data.scopes,
                       FALSE, 0).creds # NoCreds
\* The incremental grant of scope B to session id, whose token covers
\* exactly {A}: what authenticate(id, {A, B}) does, and what a successful
\* callback with no provider scopes does right after it.
IncrementalGrant(id, A, B) ==
    /\ (Calls("authenticate", id) /\ last'.scopes = {A, B}) =>
          /\ Store'[id].status = "pending_additional_scopes"
          /\ Store'[id].scopes = {A, B}
          /\ last'.creds = NoCreds /\ ~last'.raised
          /\ last'.url = AuthUrl(id, {A, B})
    /\ ( /\ last.op = "authenticate" /\ last.session_id = id
         /\ last.scopes = {A, B}
         /\ CallbackSucceeds(id) /\ last'.new_scopes = {} ) =>
          /\ Store'[id].scopes = {A, B}
          /\ Store'[id].token_data.scopes = {A, B}
          /\ Store'[id].status = "completed"
          /\ last'.creds.refresh_token = 0 =>
               Store'[id].token_data.refresh_token
                 = Store[id].token_data.refresh_token

\* C4 as stated: the incremental grant for every session whose token covers
\* exactly {A}, whatever scopes the session records.
C4_AsStated ==
    [][\A id \in DOMAIN Store : \A A \in Scopes : \A B \in Scopes \ {A} :
          Store[id].token_data.scopes = {A} => IncrementalGrant(id, A, B)]_vars

\* C4: the incremental grant for every session whose token covers exactly
\* {A} and whose recorded scopes are within {A, B} (they are {A} before
\* authenticate(id, {A, B}) and {A, B} after it).
C4_IncrementalGrant ==
    [][\A id \in DOMAIN Store : \A A \in Scopes : \A B \in Scopes \ {A} :
          ( /\ Store[id].token_data.scopes = {A}
            /\ Store[id].scopes \subseteq {A, B} )
          => IncrementalGrant(id, A, B)]_vars

\* A session created for one scope has been granted a second one by a
\* callback that followed an authenticate call, the exchange issued no
\* refresh token and the stored one is still there.
C4_Witness ==
    /\ last.op = "handle_oauth_callback"
    /\ last.before = "authenticate"
    /\ last.answer.ok
    /\ last.new_scopes = {}
    /\ last.creds.refresh_token = 0
    /\ LET s == Store[last.session_id]
       IN  /\ s.status = "completed"
           /\ Cardinality(s.scopes) = 2
           /\ s.token_data.scopes = s.scopes
           /\ s.token_data.refresh_token # 0
           /\ Len(s.scopes_history) = 1
           /\ s.scopes_history[1].date = calls
           /\ s.created_at = calls - 3
\* The call just made found the access token expired and its refresh failed.
RefreshFailed(c) == c.answer.expired /\ c.answer.refreshed = 0

\* The first authenticate call for an unknown id returns (None, url for S).
FirstAuthenticate(id) ==
    (id \notin DOMAIN Store /\ Calls("authenticate", id)) =>
       /\ last'.creds = NoCreds /\ ~last'.raised
       /\ last'.url = AuthUrl(id, last'.scopes)

\* The session id was created by authenticate(id, S) in the call before
\* last and the last call was a successful callback for it with no provider
\* scopes.
JustAuthorized(id, S) ==
    /\ id \in DOMAIN Store
    /\ last.op = "handle_oauth_callback" /\ last.session_id = id
    /\ last.before = "authenticate"
    /\ last.answer.ok /\ last.new_scopes = {}
    /\ Store[id].created_at = calls - 1
    /\ Store[id].scopes = S

\* The step leaves status and scopes of session id alone and returns no URL.
NoNewRoundTrip(id) ==
    /\ last'.url = NoneUrl
    /\ Store'[id].status = Store[id].status
    /\ Store'[id].scopes = Store[id].scopes

\* C5 as stated: authenticate for an unknown id returns (None, url); after a
\* successful callback with no provider scopes, authenticate for the same
\* scopes returns (credentials, None) and changes neither status nor scopes.
C5_AsStated ==
    [][\A id \in Ids :
          /\ FirstAuthenticate(id)
          /\ (JustAuthorized(id, last'.scopes) /\ Calls("authenticate", id))
             => /\ last'.creds # NoCreds /\ ~last'.raised
                /\ NoNewRoundTrip(id)]_vars

\* C5: the same, except that the second authenticate ends with the refresh
\* error when the access token is found expired and its refresh fails; it
\* returns no URL and changes neither status nor scopes in either case.
C5_RoundTrip ==
    [][\A id \in Ids :
          /\ FirstAuthenticate(id)
          /\ (JustAuthorized(id, last'.scopes) /\ Calls("authenticate", id))
             => /\ NoNewRoundTrip(id)
                /\ IF RefreshFailed(last')
                      /\ Store[id].token_data.refresh_token # 0
                   THEN last'.raised
                   ELSE last'.creds # NoCreds /\ ~last'.raised]_vars

\* authenticate created a session for two scopes, a callback completed it,
\* and authenticate for the same scopes has returned credentials.
C5_Witness ==
    /\ last.op = "authenticate"
    /\ last.before = "handle_oauth_callback"
    /\ last.creds # NoCreds
    /\ last.url = NoneUrl
    /\ Cardinality(last.scopes) = 2
    /\ LET s == Store[last.session_id]
       IN  /\ s.scopes = last.scopes
           /\ s.created_at = calls - 2
           /\ s.last_authorized = calls - 1
           /\ s.status = "completed"

\* C6: when authenticate(id, S) has returned (None, url) and the next call
\* is authenticate(id, S) again, that call returns (None, the same url),
\* and the store holds the same sessions with the session as it was.
C6_AuthenticateIdempotent ==
    [][\A id \in Ids :
          ( /\ last.op = "authenticate" /\ last.session_id = id
            /\ ~last.raised /\ last.creds = NoCreds
            /\ Calls("authenticate", id) /\ last'.scopes = last.scopes )
          => /\ last'.creds = NoCreds /\ ~last'.raised
             /\ last'.url.kind = "url"
             /\ last'.url = last.url
             /\ DOMAIN Store' = DOMAIN Store
             /\ Store'[id] = Store[id]]_vars

\* The session was created by authenticate for two scopes in the first call
\* and the second call was authenticate for the same scopes, with a URL.
C6_Witness ==
    /\ calls = 2
    /\ last.op = "authenticate"
    /\ last.before = "authenticate"
    /\ last.creds = NoCreds
    /\ last.url = AuthUrl(last.session_id, last.scopes)
    /\ Cardinality(last.scopes) = 2
    /\ Store[last.session_id].created_at = 1
    /\ Store[last.session_id].scopes = last.scopes

\* What C7 says get_credentials(id, R) returns, given the token data of the
\* session (R = {} when R is not given).
Resolves(c, token_data) ==
    IF token_data = NoTokenData
    THEN c.creds = NoCreds /\ ~c.raised
    ELSE IF ~(c.scopes \subseteq token_data.scopes)
         THEN c.creds = NoCreds /\ ~c.raised
         ELSE /\ c.creds # NoCreds /\ ~c.raised
              /\ c.creds.scopes =
                   IF c.scopes = {} THEN token_data.scopes ELSE c.scopes

\* C7 as stated: get_credentials returns None for an unknown session or one
\* without token_data, None when a required scope is not in the token's
\* scopes, and otherwise credentials for R (all token scopes without R).
C7_AsStated ==
    last.op = "get_credentials" =>
        Resolves(last, TokenDataOf(sessions, last.session_id))

\* C7: the same, except that the call ends with the refresh error when the
\* credentials are built, the access token is found expired, a refresh
\* token is stored and the refresh fails.
C7_GetCredentials ==
    last.op = "get_credentials" =>
        LET token_data == TokenDataOf(sessions, last.session_id)
        IN  IF /\ BuildsCreds(sessions, last.session_id, last.scopes)
               /\ RefreshFailed(last)
               /\ token_data.refresh_token # 0
            THEN last.raised /\ last.creds = NoCreds
            ELSE Resolves(last, token_data)

\* After create_session for one scope and a successful callback,
\* get_credentials for that scope has returned credentials.
C7_Witness ==
    /\ calls = 3
    /\ last.op = "get_credentials"
    /\ last.before = "handle_oauth_callback"
    /\ last.creds # NoCreds
    /\ Cardinality(last.scopes) = 1
    /\ last.creds.scopes = last.scopes
    /\ Store[last.session_id].created_at = calls - 2
    /\ Store[last.session_id].last_authorized = calls - 1

\* C8: handle_oauth_callback for an id that is not in the store returns
\* None, does not call the token endpoint, and leaves file and store as
\* they were (no session is created).
C8_UnknownSessionCallback ==
    [][\A id \in Ids :
          (Calls("handle_oauth_callback", id) /\ id \notin DOMAIN Store)
          => /\ last'.creds = NoCreds /\ ~last'.raised
             /\ ~last'.exchanged
             /\ file' = file
             /\ Store' = Store]_vars

\* A callback for an unknown id has returned None.
C8_Witness ==
    /\ last.op = "handle_oauth_callback"
    /\ last.session_id \notin DOMAIN Store
    /\ last.creds = NoCreds
    /\ ~last.exchanged

\* C9: a completed session has token_data, and when authenticate(id, S) has
\* returned credentials the scopes of the stored token contain S.
C9_CompletedHasToken ==
    /\ \A id \in DOMAIN Store :
          Store[id].status = "completed" =>
             Store[id].token_data # NoTokenData
    /\ (last.op = "authenticate" /\ last.creds # NoCreds) =>
          /\ last.session_id \in DOMAIN Store
          /\ last.scopes \subseteq Store[last.session_id].token_data.scopes

\* authenticate has returned credentials for a session that asked for one
\* more scope than its token covers.
C9_Witness ==
    /\ last.op = "authenticate"
    /\ last.creds # NoCreds
    /\ last.scopes # {}
    /\ Store[last.session_id].status = "pending_additional_scopes"
    /\ Store[last.session_id].scopes
         # Store[last.session_id].token_data.scopes

\* C10: a scope of the stored token stays a scope of the stored token over
\* every call, and authenticate(id, {A}) for such a scope A returns
\* credentials and no URL unless the refresh fails.
C10_GrantedAccessKept ==
    [][\A id \in DOMAIN Store : \A A \in Store[id].token_data.scopes :
          /\ id \in DOMAIN Store'
          /\ A \in Store'[id].token_data.scopes
          /\ ( /\ Calls("authenticate", id) /\ last'.scopes = {A}
               /\ ~RefreshFailed(last') )
             => /\ last'.creds # NoCreds /\ ~last'.raised
                /\ last'.url = NoneUrl]_vars

\* After a grant and a failed callback, authenticate for a granted scope has
\* returned credentials.
C10_Witness ==
    /\ last.op = "authenticate"
    /\ last.before = "handle_oauth_callback"
    /\ last.creds # NoCreds
    /\ Cardinality(last.scopes) = 1
    /\ LET s == Store[last.session_id]
       IN  /\ s.status = "failed"
           /\ s.last_error.error_time = calls - 1
           /\ last.scopes \subseteq s.token_data.scopes

\* A call for session id is in progress.
Busy(id) ==
    \E t \in Threads :
        threads[t].pc \notin {"idle", "done"} /\ threads[t].session_id = id

\* When the record s was last written by create_session or by a callback.
Written(s) ==
    LET times == {s.created_at, s.last_authorized, s.last_error.error_time}
    IN  CHOOSE m \in times : \A n \in times : n <= m

\* C11: when a call for session B has run while a call for another session
\* is in progress (it wrote the record of B in the file after that call
\* began, and has ended), no step of the call in progress changes the
\* record of B in the file: it is not lost, not reverted, not altered.
C11_CrossSessionIndependent ==
    [][\A t \in Threads : \A B \in DOMAIN file.data :
          ( /\ threads[t].pc \notin {"idle", "done"}
            /\ threads'[t] # threads[t]
            /\ threads[t].session_id # B
            /\ Written(file.data[B]) >= threads[t].began
            /\ ~Busy(B) )
          => /\ B \in DOMAIN file'.data
             /\ file'.data[B] = file.data[B]]_vars

\* C12: a reload never reads the file while it is open for writing or
\* garbled, and what it stores is the complete store of the file.
C12_SaveAtomic ==
    [][\A t \in Threads :
          (threads[t].pc = "load" /\ threads'[t].pc # "load") =>
             /\ ~torn
             /\ threads'[t].error # "JSONDecodeError"
             /\ mems'[threads[t].inst] = LoadSessions(mems[threads[t].inst],
                                                       file)]_vars

\* C13: an authenticate call that returned gave credentials and no URL, or
\* no credentials and an authorization URL for its session.
C13_CredentialsOrUrl ==
    \A t \in Threads :
        ( /\ threads[t].pc = "done" /\ threads[t].op = "authenticate"
          /\ ~threads[t].raised ) =>
           \/ threads[t].creds # NoCreds /\ threads[t].url = NoneUrl
           \/ /\ threads[t].creds = NoCreds
              /\ threads[t].url.kind = "url"
              /\ threads[t].url.state = threads[t].session_id

\* C14: has_scope(id, s) returns True only when s is among the scopes of the
\* stored token, and it leaves the file as it was.
C14_HasScopeAuthorized ==
    /\ (last.op = "has_scope" /\ last.has_scope) =>
          /\ last.session_id \in DOMAIN Store
          /\ last.scopes \subseteq Store[last.session_id].token_data.scopes
    /\ last.op = "has_scope" => file.data = sessions

\* C15: after a successful exchange for a request to oauth_callback that
\* carries the scope parameter, the scopes of the session and of its token
\* are the recorded scopes together with the scopes the parameter names.
C15_CallbackScopeList ==
    [][\A id \in Ids :
          ( /\ Calls("oauth_callback", id)
            /\ id \in DOMAIN Store
            /\ last'.answer.ok
            /\ last'.request.scope # <<>> )
          => /\ Store'[id].scopes = Store[id].scopes \cup last'.new_scopes
             /\ Store'[id].token_data.scopes = Store'[id].scopes]_vars

\* The step is a request to a callback endpoint that is answered with a
\* failure page and touches neither self.sessions nor the file, and for
\* which the token endpoint is not asked.
Rejected ==
    /\ last'.page \notin {"", "success.html"}
    /\ last'.creds = NoCreds
    /\ ~last'.exchanged
    /\ sessions' = sessions
    /\ file' = file

C16_RefreshFailureRecorded ==
    [][\A id \in Ids :
          ( /\ Calls("get_credentials", id) \/ Calls("authenticate", id)
            /\ RefreshFailed(last')
            /\ last'.raised )
          => /\ Store'[id].status = "failed"
             /\ Store'[id].last_error # NoError
             /\ Store'[id].last_error.error_time = Now]_vars

\* The status changes of the state-machine summary.
SummaryTransitions ==
    { <<"pending", "completed">>, <<"pending", "failed">>,
      <<"completed", "pending_additional_scopes">>,
      <<"pending_additional_scopes", "completed">>,
      <<"pending_additional_scopes", "failed">>,
      <<"failed", "completed">> }

\* Every change of a session's status by authenticate or
\* handle_oauth_callback is one of the given changes.
StatusChangesWithin(transitions) ==
    \A id \in DOMAIN Store :
        ( /\ Calls("authenticate", id) \/ Calls("handle_oauth_callback", id)
          /\ Store'[id].status # Store[id].status )
        => <<Store[id].status, Store'[id].status>> \in transitions

\* C17 as stated: every status change is one of the summary.
C17_AsStated == [][StatusChangesWithin(SummaryTransitions)]_vars

\* C17: every status change is one of the summary, or completed -> failed
\* (a callback fails for a completed session), or failed ->
\* pending_additional_scopes (authenticate asks more of a failed session
\* that holds a token).
C17_StatusTransitions ==
    [][StatusChangesWithin(
          SummaryTransitions
            \cup { <<"completed", "failed">>,
                   <<"failed", "pending_additional_scopes">> })]_vars

\* authenticate has moved a session whose last callback failed to
\* pending_additional_scopes.
C17_Witness ==
    /\ last.op = "authenticate"
    /\ last.before = "handle_oauth_callback"
    /\ last.url.kind = "url"
    /\ LET s == Store[last.session_id]
       IN  /\ s.status = "pending_additional_scopes"
           /\ s.last_error.error_time = calls - 1
           /\ s.token_data # NoTokenData

\* C18: a callback whose exchange succeeds for a stored session, whatever
\* its status, returns credentials and leaves it completed with token_data.
C18_NoTerminalStatus ==
    [][\A id \in Ids :
          CallbackSucceeds(id) =>
             /\ Store[id].status \in {"pending", "pending_additional_scopes",
                                      "failed", "completed"}
             /\ last'.creds # NoCreds /\ ~last'.raised
             /\ Store'[id].status = "completed"
             /\ Store'[id].token_data # NoTokenData
             /\ Store'[id].token_data.token = last'.creds.token]_vars

\* A session that a failed callback left failed has been completed by the
\* next callback.
C18_Witness ==
    /\ last.op = "handle_oauth_callback"
    /\ last.before = "handle_oauth_callback"
    /\ last.answer.ok
    /\ LET s == Store[last.session_id]
       IN  /\ s.status = "completed"
           /\ s.last_error.error_time = calls - 1
           /\ s.last_authorized = calls
           /\ s.token_data.last_updated = calls

\* C19: for a session with token_data, authenticate(id, S) with S not
\* within the recorded scopes returns no credentials and an authorization
\* URL; with S within the scopes of the stored token it returns, unless it
\* ends with the refresh error, the credentials and no URL, and leaves
\* status and scopes as they were.
C19_RoundTripOnGrowth ==
    [][\A id \in DOMAIN Store :
          (Store[id].token_data # NoTokenData /\ Calls("authenticate", id))
          => /\ ~(last'.scopes \subseteq Store[id].scopes) =>
                  /\ last'.creds = NoCreds /\ ~last'.raised
                  /\ last'.url =
                       AuthUrl(id, Store[id].scopes \cup last'.scopes)
             /\ ( /\ last'.scopes \subseteq Store[id].token_data.scopes
                  /\ ~last'.raised )
                => /\ last'.creds # NoCreds
                   /\ last'.creds.scopes =
                        IF last'.scopes = {} THEN Store[id].token_data.scopes
                                             ELSE last'.scopes
                   /\ NoNewRoundTrip(id)]_vars

\* authenticate has answered a request for a scope the session did not
\* record with a URL for the union, although the token covers other scopes.
C19_Witness ==
    /\ last.op = "authenticate"
    /\ last.creds = NoCreds
    /\ last.url.kind = "url"
    /\ LET s == Store[last.session_id]
       IN  /\ s.token_data # NoTokenData
           /\ ~(last.scopes \subseteq s.token_data.scopes)
           /\ last.url.scopes = s.token_data.scopes \cup last.scopes
           /\ s.scopes = last.url.scopes

\* The operation of the step is an adapter operation.
ToolStep == last'.op \in GmailOperations \cup CalendarTools

\* C21: an adapter operation for a session for which authenticate, asked
\* for the scope of the operation's service, gives no credentials and a
\* URL, returns the unauthenticated result with that URL, does not end with
\* an exception and does not call the provider API.
C21_UnauthenticatedResult ==
    [][ToolStep =>
          LET r == authenticate(sessions, file, last'.session_id,
                                last'.scopes, Now, last'.answer.expired,
                                last'.answer.refreshed)
          IN  (r.creds = NoCreds /\ ~r.raised) =>
                 /\ ~last'.raised
                 /\ last'.tool.status = "unauthenticated"
                 /\ last'.url = r.url /\ last'.url.kind = "url"
                 /\ ~last'.tool.api]_vars

\* C22: every authorization URL a call returns carries the id of the call's
\* session as state, offline access and forced consent; and the redirect
\* the provider makes from the URL the call before returned, with its state
\* and a code, is handled for the session of that call, commits to it when
\* the exchange succeeds, and leaves every other session as it was.
C22_UrlState ==
    [][/\ last'.url.kind = "url" =>
             /\ last'.url.state = last'.session_id
             /\ last'.url.access_type = "offline"
             /\ last'.url.prompt = "consent"
       /\ ( /\ last.url.kind = "url"
            /\ last'.op = "fastapi_auth_callback"
            /\ last'.request.code = "given"
            /\ last'.request.state = last.url.state )
          => /\ last'.session_id = last.session_id
             /\ last'.exchanged
             /\ DOMAIN Store' = DOMAIN Store
             /\ \A id \in DOMAIN Store \ {last.session_id} :
                   Store'[id] = Store[id]
             /\ last'.answer.ok =>
                   /\ Store'[last.session_id].status = "completed"
                   /\ Store'[last.session_id].token_data.token
                        = last'.creds.token]_vars

\* Of two pending sessions, the one whose URL authenticate returned last
\* has been completed by the redirect from that URL, and the other is
\* pending still.
C22_Witness ==
    /\ last.op = "fastapi_auth_callback"
    /\ last.before = "authenticate"
    /\ last.answer.ok
    /\ DOMAIN Store = SessionIds
    /\ Store[last.session_id].status = "completed"
    /\ \A id \in SessionIds \ {last.session_id} :
          /\ Store[id].status = "pending"
          /\ Store[id].token_data = NoTokenData

\* What C23 says the memory holds after a load of the file: for every
\* record, the record of the file, with a string 'scope' turned into the
\* one-element 'scopes' and removed.
Loaded(mem, fl) ==
    /\ DOMAIN mem = DOMAIN fl.data
    /\ \A i \in DOMAIN fl.data :
          IF fl.data[i].scope \in Scopes
          THEN /\ mem[i].scope = 0
               /\ mem[i].scopes = {fl.data[i].scope}
               /\ [mem[i] EXCEPT !.scopes = {}]
                    = [fl.data[i] EXCEPT !.scope = 0, !.scopes = {}]
          ELSE mem[i] = fl.data[i]

\* C23: after the load of the constructor and after every reload, the
\* memory holds the records of the file with every legacy record migrated
\* and the others as they are, and the empty store when there is no file; a
\* load does not raise and a reload that follows a load changes nothing.
C23_LoadMigrates ==
    [][/\ calls = 0 =>
             /\ file.exists => Loaded(sessions, file)
             /\ ~file.exists => sessions = EmptyStore
       /\ last'.op = "reload_sessions" =>
             /\ ~last'.raised
             /\ file.exists => Loaded(sessions', file)
             /\ ~file.exists => sessions' = EmptyStore
             /\ (calls = 0 \/ last.op = "reload_sessions")
                => sessions' = sessions]_vars

\* A second reload has run over a file that holds a legacy record next to
\* a record without the key, and the memory holds the first migrated.
C23_Witness ==
    /\ last.op = "reload_sessions"
    /\ last.before = "reload_sessions"
    /\ \E i \in DOMAIN file.data : \E j \in DOMAIN file.data :
          /\ file.data[i].scope = GMAIL_SCOPE
          /\ file.data[i].scopes = {NumScopes}
          /\ sessions[i].scope = 0
          /\ sessions[i].scopes = {GMAIL_SCOPE}
          /\ file.data[j].scope = 0
          /\ sessions[j] = file.data[j]

\* C24: after a callback whose exchange succeeds, the scopes of the stored
\* token are the scopes the provider issued the token for, and when
\* get_credentials(id, R) returns credentials every scope of R and of the
\* credentials is one the provider granted in the last successful exchange.
C24_TokenScopesGranted ==
    [][\A id \in DOMAIN Store :
          /\ CallbackSucceeds(id) =>
                Store'[id].token_data.scopes = last'.answer.granted
          /\ ( /\ last.op = "handle_oauth_callback" /\ last.answer.ok
               /\ last.session_id = id
               /\ Calls("get_credentials", id)
               /\ last'.creds # NoCreds )
             => /\ last'.scopes \subseteq last.answer.granted
                /\ last'.creds.scopes \subseteq last.answer.granted]_vars

\* Every thread's authenticate call for session 1 has returned a URL, no
\* two asked for the same scopes, and the file is whole.
RaceOver ==
    /\ ~torn
    /\ \A t \in Threads :
          /\ threads[t].pc = "done" /\ threads[t].op = "authenticate"
          /\ ~threads[t].raised
          /\ threads[t].url.kind = "url"
          /\ threads[t].scope \subseteq threads[t].url.scopes
    /\ \A t \in Threads : \A u \in Threads \ {t} :
          threads[t].scope # threads[u].scope

\* C25: after concurrent authenticate calls for different new scopes on an
\* authorized session, the stored scopes hold the scopes recorded before
\* and the scopes of at least one of the calls, and nothing more is kept:
\* the state in which the scope another call added is missing is reachable.
C25_LostUpdate ==
    RaceOver =>
       /\ 1 \in DOMAIN file.data
       /\ \E t \in Threads :
             AuthorizedStore.sessions[1].scopes \cup threads[t].scope
               \subseteq file.data[1].scopes
       /\ file.data[1].status = "pending_additional_scopes"
       /\ file.data[1].token_data = AuthorizedStore.sessions[1].token_data

\* The lost update: both calls returned a URL that names their scope, and
\* the stored scopes lack the scope one of them added.
C25_Witness ==
    /\ RaceOver
    /\ \E t \in Threads : ~(threads[t].scope \subseteq file.data[1].scopes)

\* C26: authenticate(id, S) for an id that is not stored adds exactly the
\* record of id, pending, with scopes S and no token data, leaves the other
\* records as they are, persists the store and returns (None, url for S);
\* no other call of authenticate, handle_oauth_callback, has_scope or
\* get_credentials changes which sessions are stored.
C26_AuthenticateCreates ==
    [][\A id \in SessionIds :
          IF Calls("authenticate", id) /\ id \notin DOMAIN Store
          THEN /\ DOMAIN Store' = DOMAIN Store \cup {id}
               /\ \A j \in DOMAIN Store : Store'[j] = Store[j]
               /\ Store'[id].status = "pending"
               /\ Store'[id].scopes = last'.scopes
               /\ Store'[id].token_data = NoTokenData
               /\ Store'[id].scopes_history = <<>>
               /\ file'.exists /\ file'.data = sessions'
               /\ last'.creds = NoCreds /\ ~last'.raised
               /\ last'.url = AuthUrl(id, last'.scopes)
          ELSE ( /\ last'.session_id = id
                 /\ last'.op \in {"authenticate", "handle_oauth_callback",
                                  "has_scope", "get_credentials"} )
               => DOMAIN Store' = DOMAIN Store]_vars

\* authenticate has created a second session, for two scopes, next to the
\* one an earlier authenticate call created.
C26_Witness ==
    /\ last.op = "authenticate"
    /\ DOMAIN Store = SessionIds
    /\ Cardinality(last.scopes) = 2
    /\ last.url = AuthUrl(last.session_id, last.scopes)
    /\ Store[last.session_id].created_at = calls
    /\ Store[last.session_id].scopes = last.scopes
    /\ Store[last.session_id].status = "pending"
    /\ \A j \in SessionIds \ {last.session_id} : Store[j].created_at < calls

\* C27: authenticate(id, S) for a stored session without token data leaves
\* the store and the file as they are, whatever S is, and returns (None,
\* url) for the scopes the session records.
C27_AuthenticateNoToken ==
    [][\A id \in DOMAIN Store :
          (Store[id].token_data = NoTokenData /\ Calls("authenticate", id))
          => /\ Store[id].status \in {"pending", "failed"}
             /\ Store' = Store
             /\ file' = file
             /\ last'.creds = NoCreds /\ ~last'.raised
             /\ last'.url = AuthUrl(id, Store[id].scopes)]_vars

\* authenticate has been called, for other scopes than it records, on a
\* session a failed callback left without token data, and has returned the
\* URL for the recorded scopes.
C27_Witness ==
    /\ last.op = "authenticate"
    /\ last.before = "handle_oauth_callback"
    /\ last.session_id \in DOMAIN Store
    /\ LET s == Store[last.session_id]
       IN  /\ s.status = "failed"
           /\ s.token_data = NoTokenData
           /\ s.last_error.error_time = calls - 1
           /\ s.scopes # {}
           /\ last.scopes \cap s.scopes = {}
           /\ last.scopes # {}
           /\ last.url = AuthUrl(last.session_id, s.scopes)

\* C28: a callback whose exchange succeeds sets the scopes of the session
\* and of its token to the union of the recorded scopes and new_scopes,
\* the status to completed and last_authorized to the time of the call; it
\* appends one entry that records the union to scopes_history when the
\* status was pending_additional_scopes or new_scopes is not empty, and
\* leaves scopes_history as it was otherwise.
C28_CallbackCommit ==
    [][\A id \in Ids :
          CallbackSucceeds(id) =>
             LET union == Store[id].scopes \cup last'.new_scopes
                 before == Store[id].scopes_history
                 after == Store'[id].scopes_history
             IN  /\ Store'[id].scopes = union
                 /\ Store'[id].token_data.scopes = union
                 /\ Store'[id].status = "completed"
                 /\ Store'[id].last_authorized = Now
                 /\ IF \/ Store[id].status = "pending_additional_scopes"
                       \/ last'.new_scopes # {}
                    THEN /\ Len(after) = Len(before) + 1
                         /\ SubSeq(after, 1, Len(before)) = before
                         /\ after[Len(after)].scopes = union
                         /\ after[Len(after)].action = "added_scopes"
                    ELSE after = before]_vars

\* A callback without new_scopes for a session that authenticate had moved
\* to pending_additional_scopes has appended the entry of the union.
C28_Witness ==
    /\ last.op = "handle_oauth_callback"
    /\ last.before = "authenticate"
    /\ last.answer.ok
    /\ last.new_scopes = {}
    /\ LET s == Store[last.session_id]
       IN  /\ s.status = "completed"
           /\ s.last_authorized = calls
           /\ Len(s.scopes_history) = 1
           /\ s.scopes_history[1].scopes = s.scopes
           /\ s.scopes_history[1].date = calls
           /\ s.token_data.scopes = s.scopes
           /\ Cardinality(s.scopes) > 1

\* C29: over every call, every stored session stays stored and its
\* scopes_history after the call begins with its scopes_history before the
\* call: entries are added at the end, and none is changed, moved or
\* removed.
C29_HistoryAppendOnly ==
    [][\A id \in DOMAIN Store :
          /\ id \in DOMAIN Store'
          /\ Len(Store'[id].scopes_history) >= Len(Store[id].scopes_history)
          /\ SubSeq(Store'[id].scopes_history, 1,
                    Len(Store[id].scopes_history))
               = Store[id].scopes_history]_vars

\* A callback has appended a second entry, for more scopes, after the
\* entry an earlier callback appended.
C29_Witness ==
    /\ last.op = "handle_oauth_callback"
    /\ last.answer.ok
    /\ LET h == Store[last.session_id].scopes_history
       IN  /\ Len(h) = 2
           /\ h[1].date < h[2].date
           /\ h[2].date = calls
           /\ h[1].scopes # h[2].scopes
           /\ h[1].scopes \subseteq h[2].scopes

\* C30: after every call a session whose status is failed has last_error,
\* a callback that fails for a stored session leaves the one record of
\* that failure in last_error, and no other call changes last_error.
C30_FailedHasLastError ==
    [][\A id \in DOMAIN Store' :
          /\ Store'[id].status = "failed" => Store'[id].last_error # NoError
          /\ id \in DOMAIN Store =>
                IF CallbackFails(id)
                THEN \E e \in ExchangeErrors :
                        Store'[id].last_error =
                          [error_time |-> Now, error_type |-> e.error_type,
                           error_message |-> e.error_message]
                ELSE Store'[id].last_error = Store[id].last_error]_vars

\* C31: when get_credentials builds credentials and finds the access token
\* expired, then with a refresh token stored and a refresh that succeeds
\* the only change of the store is token_data.token of the session, which
\* is the new access token the credentials carry, and the file holds that
\* store; with no refresh token stored the credentials are returned with
\* the stored token and neither store nor file changes.
C31_RefreshWritesTokenOnly ==
    [][\A id \in DOMAIN Store :
          ( /\ Calls("get_credentials", id)
            /\ Store[id].token_data # NoTokenData
            /\ last'.scopes \subseteq Store[id].token_data.scopes
            /\ last'.answer.expired )
          => /\ ( /\ Store[id].token_data.refresh_token # 0
                  /\ last'.answer.refreshed # 0 )
                => /\ ~last'.raised
                   /\ last'.creds.token = last'.answer.refreshed
                   /\ Store' = [Store EXCEPT ![id].token_data.token =
                                               last'.answer.refreshed]
                   /\ file'.exists /\ file'.data = Store'
             /\ Store[id].token_data.refresh_token = 0
                => /\ ~last'.raised
                   /\ last'.creds # NoCreds
                   /\ last'.creds.token = Store[id].token_data.token
                   /\ Store' = Store
                   /\ file' = file]_vars

\* get_credentials has refreshed the expired token of a session that waits
\* for additional scopes, and status, scopes and refresh token are as the
\* calls before left them.
C31_Witness ==
    /\ last.op = "get_credentials"
    /\ last.answer.expired
    /\ last.answer.refreshed # 0
    /\ last.creds.token = last.answer.refreshed
    /\ LET s == Store[last.session_id]
       IN  /\ s.token_data.token = last.answer.refreshed
           /\ s.token_data.refresh_token # 0
           /\ s.status = "pending_additional_scopes"
           /\ s.token_data.scopes # s.scopes
           /\ s.token_data.last_updated < calls

\* C32: over every call of a sequential run every stored session stays
\* stored, the record of every session other than the one the call names
\* is as it was, and the token data of a session changes only by a
\* callback for that session whose exchange succeeds, which stores the
\* tokens it was issued, or by a refresh of that session's access token.
C32_SessionsApart ==
    [][\A B \in DOMAIN Store :
          /\ B \in DOMAIN Store'
          /\ last'.session_id # B => Store'[B] = Store[B]
          /\ Store'[B].token_data # Store[B].token_data =>
                \/ /\ CallbackSucceeds(B)
                   /\ Store'[B].token_data.token = last'.creds.token
                   /\ Store'[B].token_data.refresh_token \in
                        {last'.creds.refresh_token,
                         Store[B].token_data.refresh_token}
                \/ /\ Calls("get_credentials", B)
                   /\ last'.answer.refreshed # 0
                   /\ Store'[B].token_data =
                        [Store[B].token_data EXCEPT
                           !.token = last'.answer.refreshed]]_vars

\* A callback has stored the token of the second session while the first
\* session holds the token data an earlier callback stored for it.
C32_Witness ==
    /\ last.op = "handle_oauth_callback"
    /\ last.answer.ok
    /\ DOMAIN Store = SessionIds
    /\ Store[last.session_id].token_data.last_updated = calls
    /\ Store[last.session_id].token_data.token = last.creds.token
    /\ \A B \in SessionIds \ {last.session_id} :
          /\ Store[B].status = "completed"
          /\ Store[B].token_data # NoTokenData
          /\ Store[B].token_data.last_updated < calls

\* C33: a callback for a stored session whose code exchange fails raises
\* and leaves the store as it was but for that session's status, now
\* "failed", and its last_error: the session's scopes (new scopes passed or
\* not), scopes_history, last_authorized, created_at and token data are
\* those before the call, and the file holds the result.
C33_FailureTouchesStatusAndError ==
    [][\A id \in DOMAIN Store :
          CallbackFails(id) =>
             /\ last'.raised
             /\ Store' = [Store EXCEPT
                            ![id].status = "failed",
                            ![id].last_error = Store'[id].last_error]
             /\ Store'[id].last_error.error_time = calls'
             /\ Store'[id].scopes = Store[id].scopes
             /\ Store'[id].scopes_history = Store[id].scopes_history
             /\ Store'[id].last_authorized = Store[id].last_authorized
             /\ Store'[id].created_at = Store[id].created_at
             /\ file'.exists /\ file'.data = Store']_vars

\* A callback passing a scope the session does not record has failed on an
\* authorized session that has a history entry.
C33_Witness ==
    /\ last.op = "handle_oauth_callback"
    /\ last.exchanged /\ last.raised /\ ~last.answer.ok
    /\ last.session_id \in DOMAIN Store
    /\ ~(last.new_scopes \subseteq Store[last.session_id].scopes)
    /\ Store[last.session_id].status = "failed"
    /\ Store[last.session_id].last_error.error_time = calls
    /\ Store[last.session_id].token_data # NoTokenData
    /\ Store[last.session_id].scopes_history # <<>>
    /\ Store[last.session_id].last_authorized \in 1..(calls - 1)

\* C34: when authenticate(id, S) returned (None, url) and the next call was
\* a successful callback for id with no new scopes, the authenticate(id, S)
\* that follows returns (credentials, None), whatever the session was
\* before the first of the three calls.
C34_OneRoundTrip ==
    [][\A t \in Threads, id \in Ids :
          ( /\ threads[t].pc = "consented"
            /\ threads[t].session_id = id
            /\ Calls("authenticate", id)
            /\ last'.scopes = threads[t].scope )
          => /\ last'.creds # NoCreds
             /\ last'.url = NoneUrl
             /\ ~last'.raised]_vars

\* C35: whenever authenticate(id, {s}) would return credentials for a
\* stored session, auth_status for that session, with scope s or with no
\* scope, answers "authenticated".
C35_StatusAgrees ==
    [][\A id \in DOMAIN Store, s \in Scopes :
          ( /\ Calls("auth_status", id)
            /\ last'.scopes \subseteq {s}
            /\ authenticate(sessions, file, id, {s}, Now, FALSE, 0).creds
                 # NoCreds )
          => last'.page = "authenticated"]_vars

\* C36: create_session for an id the store holds leaves that session its
\* token data, refresh token included, and every scope it recorded.
C36_CreateKeepsSession ==
    [][\A id \in DOMAIN Store :
          Calls("create_session", id)
          => /\ id \in DOMAIN Store'
             /\ Store'[id].token_data = Store[id].token_data
             /\ Store[id].scopes \subseteq Store'[id].scopes]_vars

\* A callback for session 1 returned credentials while another thread's
\* authenticate call for the session ran to its end, and the file is whole.
CommitOver ==
    /\ ~torn
    /\ \A t \in Threads : threads[t].pc = "done" /\ ~threads[t].raised
    /\ \E t \in Threads :
          /\ threads[t].op = "handle_oauth_callback"
          /\ threads[t].creds # NoCreds
    /\ \E t \in Threads : threads[t].op = "authenticate"

\* C37: when a successful callback for an authorized session and an
\* authenticate call for the same session have both ended, the file holds
\* the session with the token the callback was issued, not with the token
\* data stored before the callback.
C37_CommitDurable ==
    CommitOver =>
       /\ 1 \in DOMAIN file.data
       /\ file.data[1].token_data # AuthorizedStore.sessions[1].token_data
       /\ \E t \in Threads :
             /\ threads[t].op = "handle_oauth_callback"
             /\ file.data[1].token_data.token = threads[t].creds.token

\* C38: in every state of a sequential run, the scopes in the token data
\* of a stored session are among the scopes the session records.
C38_TokenScopesRecorded ==
    \A id \in DOMAIN Store :
       Store[id].token_data # NoTokenData
       => Store[id].token_data.scopes \subseteq Store[id].scopes

\* authenticate has recorded a scope that the token data of the session
\* does not hold yet.
C38_Witness ==
    /\ last.op = "authenticate"
    /\ last.session_id \in DOMAIN Store
    /\ Store[last.session_id].token_data # NoTokenData
    /\ Store[last.session_id].token_data.scopes # {}
    /\ Store[last.session_id].token_data.scopes
         # Store[last.session_id].scopes
    /\ last.scopes \subseteq Store[last.session_id].scopes
    /\ ~(last.scopes \subseteq Store[last.session_id].token_data.scopes)

\* C39: in every state of a run of authenticate and handle_oauth_callback
\* calls, a session awaiting additional scopes has token data and a
\* pending session has none.
C39_StatusTellsTokenData ==
    \A id \in DOMAIN Store :
       /\ Store[id].status = "pending_additional_scopes"
          => Store[id].token_data # NoTokenData
       /\ Store[id].status = "pending"
          => Store[id].token_data = NoTokenData

\* A session awaits additional scopes after a callback for it had failed.
C39_Witness ==
    /\ last.op = "authenticate"
    /\ last.before = "handle_oauth_callback"
    /\ last.session_id \in DOMAIN Store
    /\ Store[last.session_id].status = "pending_additional_scopes"
    /\ Store[last.session_id].token_data # NoTokenData
    /\ Store[last.session_id].last_error.error_time = calls - 1

====
